---- MODULE Spec2Model ----
(***************************************************************************)
(* A model of the NeuralLog Python SDK's delivery pipeline:                *)
(*   - AILogger (neurallog_sdk/ai_logger.py): log(), flush(), the pending  *)
(*     queue, the flush lock and the self-rescheduling batch timer;        *)
(*   - HttpClient.send (neurallog_sdk/http/http_client.py): the retry loop *)
(*     with exponential backoff;                                           *)
(*   - NeuralLog (neurallog_sdk/neurallog.py): configure(), the registry   *)
(*     of named loggers with its lock, get_logger(), set_global_context()  *)
(*     and flush_all();                                                    *)
(*   - the level conversions of the standard-logging handler and of the    *)
(*     Loguru sink (neurallog_sdk/adapters).                               *)
(*                                                                         *)
(* Threads are the producers (application threads calling log(), flush()   *)
(* and set_context()) and the threading.Timer threads the logger creates.  *)
(* Each thread has a program counter; one action is one step between two   *)
(* accesses of shared state (the queue, the lock, the timer, the           *)
(* transport).                                                             *)
(*                                                                         *)
(* Input domain: caller data and contexts are JSON-serialisable dicts, and *)
(* a 2xx reply other than 204 carries a JSON body.                         *)
(***************************************************************************)
EXTENDS Integers, Sequences, FiniteSets, TLC

(* ------------------------------ bounds -------------------------------- *)

\* Number of non-empty log() calls made in one behaviour.
MaxEvents == 3
\* Largest configured batch_size.
MaxBatchSize == 2
\* Largest configured max_retries.
MaxRetries == 2
\* Number of non-empty log() calls of the single producer of ApiSpec.
MaxApiEvents == 2

(* ------------------------- program constants -------------------------- *)

BatchIntervalMs == 5000
DefaultMaxRetries == 3
RetryBackoffMs == 1000
\* The default timeout_ms, the timeout of one request.
TimeoutMs == 30000

(* ------------------------------- threads ------------------------------ *)

Producers == {"p1", "p2"}
\* threading.Timer objects; each runs its callback in a thread of its own.
Timers == {"t1", "t2"}
Threads == Producers \cup Timers
None == "None"

(* -------------------------------- inputs ------------------------------ *)

EmptyDict == <<>>
Levels == {"debug", "info", "warning", "error", "fatal"}
Messages == {"", "m"}
DataArgs == {EmptyDict, ("a" :> 2) @@ ("b" :> 3)}
Contexts == {EmptyDict, ("a" :> 1)}
\* Keys and values the caller puts into a dict it holds.
Keys == {"a", "b"}
Values == {1, 2}

VARIABLES
  config,        \* self.config (NeuralLogConfig)
  context,       \* self.context
  batch_queue,   \* self.batch_queue (queue.Queue), head first
  batch_lock,    \* self.batch_lock: the thread holding it, or None
  batch_timer,   \* self.batch_timer: the Timer it references, or None
  pc,            \* where each thread is
  call,          \* the call each producer made last
  result,        \* how that call ended: "pending", "returned" or the exception
  log_entries,   \* _send_batch's local list, per thread
  sent,          \* every http_client.send() of the logger, in hand-off order
  nextId,        \* the id of the next LogEntry (stands for uuid4)
  enqueued,      \* every LogEntry put on the queue, in put order
  disposed,      \* __del__ has run
  \* HttpClient.send
  send_pc, retries, last_exception, requests, sleeps, send_result,
  \* the application
  context_arg,        \* the dict last passed to set_context, still held by its caller
  nl_config,          \* NeuralLog._config
  nl_global_context,  \* NeuralLog._global_context
  nl_lock,            \* NeuralLog._lock: the thread holding it, or None
  nl_loggers,         \* NeuralLog._loggers, in insertion order
  ai_loggers,         \* the AILogger objects get_logger has constructed
  frame,              \* the locals of each thread's NeuralLog call
  \* the adapters
  handler,            \* NeuralLogHandler: the record's levelno and its conversion
  sink                \* LoguruSink: the record's level name and its conversion

loggerVars == <<context, batch_queue, batch_lock, batch_timer, pc, call, result,
                log_entries, sent, nextId, enqueued, disposed>>
httpVars == <<send_pc, retries, last_exception, requests, sleeps, send_result>>
registryVars == <<nl_lock, nl_loggers, ai_loggers, frame>>
adapterVars == <<handler, sink>>
appVars == <<context_arg, nl_config, nl_global_context, registryVars, adapterVars>>
vars == <<config, loggerVars, httpVars, appVars>>

(* -------------------------------- helpers ----------------------------- *)

Range(s) == {s[i] : i \in 1..Len(s)}

\* Variant: the context is applied last and wins on a shared key.
Merge_ContextWins(ctx, data) ==
  [k \in (DOMAIN ctx) \cup (DOMAIN data) |->
     IF k \in DOMAIN ctx THEN ctx[k] ELSE data[k]]

\* dict.update twice: the context first, the caller's data over it.
Merge(ctx, data) ==
  [k \in (DOMAIN ctx) \cup (DOMAIN data) |->
     IF k \in DOMAIN data THEN data[k] ELSE ctx[k]]

LogEntry(id, level, message, data) ==
  [id |-> id, level |-> level, message |-> message, data |-> data]

\* Variant: every asynchronous logger batches, whatever its batch size.
Batching_AsyncOnly == config.async_enabled

\* The test of log() and flush() that selects the queue (lines 111 and 131).
Batching == config.async_enabled /\ config.batch_size > 1
\* Variant: the timer is started whenever an interval is configured.
TimerConfigured_IntervalOnly == config.batch_interval_ms > 0

\* The test of __init__ that starts the batch timer (line 36).
TimerConfigured == config.async_enabled /\ config.batch_interval_ms > 0

Configs ==
  [async_enabled : BOOLEAN,
   batch_size : 1..MaxBatchSize,
   batch_interval_ms : {0, BatchIntervalMs},
   max_retries : {DefaultMaxRetries},
   retry_backoff_ms : {RetryBackoffMs}]

\* Configurations for HttpClient.send alone.
SendConfigs ==
  [async_enabled : {FALSE},
   batch_size : {1},
   batch_interval_ms : {0},
   max_retries : 0..MaxRetries,
   retry_backoff_ms : {1, RetryBackoffMs}]

\* What one session.request() can come back with: a response with a status
\* code, or a network failure raised as a RequestException.
StatusCodes == {200, 204, 400, 500}
Replies ==
  {[exc |-> None, status |-> c] : c \in StatusCodes} \cup
  {[exc |-> e, status |-> 0] : e \in {"ConnectionError", "Timeout"}}

\* What http_client.send() does to its caller: it returns or it raises.
SendOutcomes == {"ok", "failed"}

(* ------------------------------ AILogger ------------------------------ *)

HttpIdle ==
  /\ send_pc = "idle" /\ retries = 0 /\ last_exception = None
  /\ requests = <<>> /\ sleeps = <<>> /\ send_result = [kind |-> None, value |-> None]

NoCall == [op |-> None, message |-> None]

\* The state after AILogger.__init__.
LoggerInit ==
  /\ context = EmptyDict
  /\ batch_queue = <<>>
  /\ batch_lock = None
  /\ batch_timer = IF TimerConfigured THEN "t1" ELSE None
  /\ pc = [t \in Threads |->
             IF t \in Producers THEN "idle"
             ELSE IF t = "t1" /\ TimerConfigured THEN "pending" ELSE "none"]
  /\ call = [t \in Producers |-> NoCall]
  /\ result = [t \in Producers |-> None]
  /\ log_entries = [t \in Threads |-> <<>>]
  /\ sent = <<>>
  /\ nextId = 1
  /\ enqueued = <<>>
  /\ disposed = FALSE

\* The AILogger the model follows in detail, as a value of the registry; the
\* loggers get_logger constructs are 1, 2, ... in ai_loggers.
MainLogger == 0
\* The name the application got that logger under.
MainName == "main"
\* The names callers ask get_logger for; "" is the empty name.
LogNames == {"", "a", "b"}

\* The locals of a NeuralLog call: the name asked for, the loggers a loop has
\* still to visit and those it has visited, and the caller's variable for the
\* logger get_logger returned to it.
NoFrame == [log_name |-> None, todo |-> <<>>, done |-> <<>>, logger |-> <<>>]

\* log_name in cls._loggers
Registered(log_name) ==
  \E i \in 1..Len(nl_loggers) : nl_loggers[i].log_name = log_name

\* cls._loggers[log_name]
Lookup(log_name) ==
  nl_loggers[CHOOSE i \in 1..Len(nl_loggers) : nl_loggers[i].log_name = log_name].logger

\* cls._loggers.values()
LoggersValues == [i \in 1..Len(nl_loggers) |-> nl_loggers[i].logger]

\* cls._loggers[log_name] = logger: a new key goes last, a known key keeps
\* its place.
Insert(log_name, logger) ==
  IF Registered(log_name)
  THEN [i \in 1..Len(nl_loggers) |->
          IF nl_loggers[i].log_name = log_name
          THEN [log_name |-> log_name, logger |-> logger] ELSE nl_loggers[i]]
  ELSE Append(nl_loggers, [log_name |-> log_name, logger |-> logger])

\* The class variables as the class body leaves them, but for the registry.
ClassInit ==
  /\ context_arg = [held |-> FALSE, value |-> EmptyDict, same_object |-> FALSE]
  /\ nl_config = config
  /\ nl_global_context = EmptyDict
  /\ nl_lock = None
  /\ ai_loggers = <<>>
  /\ frame = [t \in Producers |-> NoFrame]

\* The adapters with no record to convert.
AdaptersIdle ==
  /\ handler = [levelno |-> 0, level |-> None]
  /\ sink = [level_name |-> <<>>, level |-> None]

\* The application before any call: the logger was made by
\* NeuralLog.get_logger from the configuration registered then, with an empty
\* global context, and the caller has passed no dict to set_context yet.
AppInit ==
  /\ ClassInit
  /\ AdaptersIdle
  /\ nl_loggers = <<[log_name |-> MainName, logger |-> MainLogger]>>

Init ==
  /\ config \in Configs
  /\ LoggerInit
  /\ HttpIdle
  /\ AppInit

\* A thread leaves _send_batch (or _send_log_entry): a producer is back in its
\* caller (which is the loop of flush_all when that made the call), a timer
\* thread goes on to _start_batch_timer.
Return(t) ==
  /\ pc' = [pc EXCEPT ![t] = IF t \in Producers
                             THEN (IF call[t].op = "flush_all" THEN "loop" ELSE "idle")
                             ELSE "restart"]
  /\ result' = IF t \in Producers /\ call[t].op # "flush_all"
               THEN [result EXCEPT ![t] = "returned"] ELSE result

\* A thread leaves with an exception it did not catch.
Raise(t, e) ==
  /\ pc' = [pc EXCEPT ![t] = IF t \in Producers THEN "idle" ELSE "none"]
  /\ result' = IF t \in Producers THEN [result EXCEPT ![t] = e] ELSE result

\* Log validating the message only after the entry was built and routed.
Log_LateValidation(t, level, message, data) ==
  /\ pc[t] = "idle"
  /\ call' = [call EXCEPT ![t] = [op |-> "log", message |-> message]]
  /\ nextId <= MaxEvents
  /\ LET log_entry == LogEntry(nextId, level, message, Merge(context, data)) IN
       IF Batching
       THEN /\ batch_queue' = Append(batch_queue, log_entry)
            /\ enqueued' = Append(enqueued, log_entry)
            /\ pc' = [pc EXCEPT ![t] = IF message = "" THEN "idle" ELSE "qsize"]
            /\ UNCHANGED sent
       ELSE /\ sent' = IF message = "" THEN sent
                       ELSE Append(sent, [kind |-> "single", entries |-> <<log_entry>>,
                                          by |-> t, status |-> "inflight"])
            /\ pc' = [pc EXCEPT ![t] = IF message = "" THEN "idle" ELSE "sending_single"]
            /\ UNCHANGED <<batch_queue, enqueued>>
  /\ nextId' = nextId + 1
  /\ result' = [result EXCEPT ![t] = IF message = "" THEN "ValueError" ELSE "pending"]
  /\ UNCHANGED <<config, context, batch_lock, batch_timer, log_entries, disposed, httpVars, appVars>>

\* Variant: the put waits until no flush holds the lock.
Log_PutUnderLock(t, level, message, data) ==
  /\ pc[t] = "idle"
  /\ call' = [call EXCEPT ![t] = [op |-> "log", message |-> message]]
  /\ IF message = ""
     THEN /\ result' = [result EXCEPT ![t] = "ValueError"]
          /\ UNCHANGED <<context, batch_queue, batch_lock, batch_timer, pc,
                         log_entries, sent, nextId, enqueued, disposed>>
     ELSE /\ nextId <= MaxEvents
          /\ LET log_entry == LogEntry(nextId, level, message, Merge(context, data)) IN
             IF Batching
             THEN /\ batch_lock = None
                  /\ batch_queue' = Append(batch_queue, log_entry)
                  /\ enqueued' = Append(enqueued, log_entry)
                  /\ pc' = [pc EXCEPT ![t] = "qsize"]
                  /\ UNCHANGED sent
             ELSE /\ sent' = Append(sent, [kind |-> "single", entries |-> <<log_entry>>,
                                           by |-> t, status |-> "inflight"])
                  /\ pc' = [pc EXCEPT ![t] = "sending_single"]
                  /\ UNCHANGED <<batch_queue, enqueued>>
          /\ nextId' = nextId + 1
          /\ result' = [result EXCEPT ![t] = "pending"]
          /\ UNCHANGED <<context, batch_lock, batch_timer, log_entries, disposed>>
  /\ UNCHANGED <<config, httpVars, appVars>>

\* Variant: the put adds the entry at the head of the queue.
Log_PutAtHead(t, level, message, data) ==
  /\ pc[t] = "idle"
  /\ call' = [call EXCEPT ![t] = [op |-> "log", message |-> message]]
  /\ IF message = ""
     THEN /\ result' = [result EXCEPT ![t] = "ValueError"]
          /\ UNCHANGED <<context, batch_queue, batch_lock, batch_timer, pc,
                         log_entries, sent, nextId, enqueued, disposed>>
     ELSE /\ nextId <= MaxEvents
          /\ LET log_entry == LogEntry(nextId, level, message, Merge(context, data)) IN
             IF Batching
             THEN /\ batch_queue' = <<log_entry>> \o batch_queue
                  /\ enqueued' = Append(enqueued, log_entry)
                  /\ pc' = [pc EXCEPT ![t] = "qsize"]
                  /\ UNCHANGED sent
             ELSE /\ sent' = Append(sent, [kind |-> "single", entries |-> <<log_entry>>,
                                           by |-> t, status |-> "inflight"])
                  /\ pc' = [pc EXCEPT ![t] = "sending_single"]
                  /\ UNCHANGED <<batch_queue, enqueued>>
          /\ nextId' = nextId + 1
          /\ result' = [result EXCEPT ![t] = "pending"]
          /\ UNCHANGED <<context, batch_lock, batch_timer, log_entries, disposed>>
  /\ UNCHANGED <<config, httpVars, appVars>>

\* Variant: an entry that is sent on its own is put on the queue as well.
Log_AlsoQueues(t, level, message, data) ==
  /\ pc[t] = "idle"
  /\ call' = [call EXCEPT ![t] = [op |-> "log", message |-> message]]
  /\ IF message = ""
     THEN /\ result' = [result EXCEPT ![t] = "ValueError"]
          /\ UNCHANGED <<context, batch_queue, batch_lock, batch_timer, pc,
                         log_entries, sent, nextId, enqueued, disposed>>
     ELSE /\ nextId <= MaxEvents
          /\ LET log_entry == LogEntry(nextId, level, message, Merge(context, data)) IN
             /\ batch_queue' = Append(batch_queue, log_entry)
             /\ enqueued' = Append(enqueued, log_entry)
             /\ IF Batching
                THEN /\ pc' = [pc EXCEPT ![t] = "qsize"]
                     /\ UNCHANGED sent
                ELSE /\ sent' = Append(sent, [kind |-> "single", entries |-> <<log_entry>>,
                                              by |-> t, status |-> "inflight"])
                     /\ pc' = [pc EXCEPT ![t] = "sending_single"]
          /\ nextId' = nextId + 1
          /\ result' = [result EXCEPT ![t] = "pending"]
          /\ UNCHANGED <<context, batch_lock, batch_timer, log_entries, disposed>>
  /\ UNCHANGED <<config, httpVars, appVars>>

\* log(): validation, merge, LogEntry, routing; up to the first access of shared
\* state (the put, or the hand-off of the single entry to the transport).
Log(t, level, message, data) ==
  /\ pc[t] = "idle"
  /\ call' = [call EXCEPT ![t] = [op |-> "log", message |-> message]]
  /\ IF message = ""
     THEN /\ result' = [result EXCEPT ![t] = "ValueError"]
          /\ UNCHANGED <<context, batch_queue, batch_lock, batch_timer, pc,
                         log_entries, sent, nextId, enqueued, disposed>>
     ELSE /\ nextId <= MaxEvents
          /\ LET log_entry == LogEntry(nextId, level, message, Merge(context, data)) IN
             IF Batching
             THEN /\ batch_queue' = Append(batch_queue, log_entry)
                  /\ enqueued' = Append(enqueued, log_entry)
                  /\ pc' = [pc EXCEPT ![t] = "qsize"]
                  /\ UNCHANGED sent
             ELSE /\ sent' = Append(sent, [kind |-> "single", entries |-> <<log_entry>>,
                                           by |-> t, status |-> "inflight"])
                  /\ pc' = [pc EXCEPT ![t] = "sending_single"]
                  /\ UNCHANGED <<batch_queue, enqueued>>
          /\ nextId' = nextId + 1
          /\ result' = [result EXCEPT ![t] = "pending"]
          /\ UNCHANGED <<context, batch_lock, batch_timer, log_entries, disposed>>
  /\ UNCHANGED <<config, httpVars, appVars>>

\* Variant: the put is never followed by a flush.
CheckSize_Never(t) ==
  /\ pc[t] = "qsize"
  /\ Return(t)
  /\ UNCHANGED <<config, context, batch_queue, batch_lock, batch_timer, call,
                 log_entries, sent, nextId, enqueued, disposed, httpVars, appVars>>

\* Variant: the flush on size waits for one entry more than batch_size.
CheckSize_Greater(t) ==
  /\ pc[t] = "qsize"
  /\ IF Len(batch_queue) > config.batch_size
     THEN pc' = [pc EXCEPT ![t] = "acquire"] /\ UNCHANGED result
     ELSE Return(t)
  /\ UNCHANGED <<config, context, batch_queue, batch_lock, batch_timer, call,
                 log_entries, sent, nextId, enqueued, disposed, httpVars, appVars>>

\* _enqueue_log_entry after the put: the qsize() test.
CheckSize(t) ==
  /\ pc[t] = "qsize"
  /\ IF Len(batch_queue) >= config.batch_size
     THEN pc' = [pc EXCEPT ![t] = "acquire"] /\ UNCHANGED result
     ELSE Return(t)
  /\ UNCHANGED <<config, context, batch_queue, batch_lock, batch_timer, call,
                 log_entries, sent, nextId, enqueued, disposed, httpVars, appVars>>

\* Variant: flush() runs _send_batch whatever the configuration.
Flush_Always(t) ==
  /\ pc[t] = "idle"
  /\ call' = [call EXCEPT ![t] = [op |-> "flush", message |-> None]]
  /\ pc' = [pc EXCEPT ![t] = "acquire"]
  /\ result' = [result EXCEPT ![t] = "pending"]
  /\ UNCHANGED <<config, context, batch_queue, batch_lock, batch_timer,
                 log_entries, sent, nextId, enqueued, disposed, httpVars, appVars>>

\* flush()
Flush(t) ==
  /\ pc[t] = "idle"
  /\ call' = [call EXCEPT ![t] = [op |-> "flush", message |-> None]]
  /\ IF Batching
     THEN /\ pc' = [pc EXCEPT ![t] = "acquire"]
          /\ result' = [result EXCEPT ![t] = "pending"]
     ELSE Return(t)
  /\ UNCHANGED <<config, context, batch_queue, batch_lock, batch_timer,
                 log_entries, sent, nextId, enqueued, disposed, httpVars, appVars>>

\* Variant: set_context keeps the caller's dict itself instead of a copy.
SetContext_NoCopy(t, c) ==
  /\ pc[t] = "idle"
  /\ context' = c
  /\ context_arg' = [held |-> TRUE, value |-> c, same_object |-> TRUE]
  /\ call' = [call EXCEPT ![t] = [op |-> "set_context", message |-> None]]
  /\ result' = [result EXCEPT ![t] = "returned"]
  /\ UNCHANGED <<config, batch_queue, batch_lock, batch_timer, pc, log_entries,
                 sent, nextId, enqueued, disposed, httpVars, nl_config,
                 nl_global_context,
                 registryVars, adapterVars>>

\* set_context(context) with a dict: self.context becomes a new dict with the
\* items of the caller's, which the caller keeps.
SetContext(t, c) ==
  /\ pc[t] = "idle"
  /\ context' = c
  /\ context_arg' = [held |-> TRUE, value |-> c, same_object |-> FALSE]
  /\ call' = [call EXCEPT ![t] = [op |-> "set_context", message |-> None]]
  /\ result' = [result EXCEPT ![t] = "returned"]
  /\ UNCHANGED <<config, batch_queue, batch_lock, batch_timer, pc, log_entries,
                 sent, nextId, enqueued, disposed, httpVars, nl_config,
                 nl_global_context,
                 registryVars, adapterVars>>

\* set_context(None)
SetContextNone(t) ==
  /\ pc[t] = "idle"
  /\ call' = [call EXCEPT ![t] = [op |-> "set_context_none", message |-> None]]
  /\ result' = [result EXCEPT ![t] = "ValueError"]
  /\ UNCHANGED <<config, context, batch_queue, batch_lock, batch_timer, pc,
                 log_entries, sent, nextId, enqueued, disposed, httpVars, appVars>>

\* What one statement of the caller makes of its dict d: a key added, a key
\* removed, or a key bound to another value.
Mutations(d) ==
  {d @@ (k :> v) : k \in Keys \ DOMAIN d, v \in Values} \cup
  {[k \in (DOMAIN d) \ {x} |-> d[k]] : x \in DOMAIN d} \cup
  UNION {{[d EXCEPT ![k] = v] : v \in Values \ {d[k]}} : k \in DOMAIN d}

\* The caller changes the dict it passed to set_context. The change shows in
\* self.context exactly if self.context is that same dict object.
MutateContextArg(d) ==
  /\ context_arg.held
  /\ d \in Mutations(context_arg.value)
  /\ context_arg' = [context_arg EXCEPT !.value = d]
  /\ context' = IF context_arg.same_object THEN d ELSE context
  /\ UNCHANGED <<config, batch_queue, batch_lock, batch_timer, pc, call, result,
                 log_entries, sent, nextId, enqueued, disposed, httpVars,
                 nl_config, nl_global_context,
                 registryVars, adapterVars>>

\* NeuralLog.set_global_context(context) with a dict, up to the assignment of
\* the class variable, which is made outside the registry lock.
SetGlobalContext(t, c) ==
  /\ pc[t] = "idle"
  /\ nl_global_context' = c
  /\ call' = [call EXCEPT ![t] = [op |-> "set_global_context", message |-> None]]
  /\ result' = [result EXCEPT ![t] = "pending"]
  /\ pc' = [pc EXCEPT ![t] = "registry"]
  /\ frame' = [frame EXCEPT ![t].todo = <<>>, ![t].done = <<>>]
  /\ UNCHANGED <<config, context, batch_queue, batch_lock, batch_timer,
                 log_entries, sent, nextId, enqueued, disposed, httpVars,
                 context_arg, nl_config, nl_lock, nl_loggers, ai_loggers,
                 adapterVars>>

\* Variant: the registry lock is taken whether or not another thread holds it.
RegistryAcquire_NoWait(t) ==
  /\ pc[t] = "registry"
  /\ nl_lock' = t
  /\ frame' = [frame EXCEPT ![t].todo = LoggersValues]
  /\ pc' = [pc EXCEPT ![t] = IF call[t].op = "get_logger" THEN "lookup" ELSE "loop"]
  /\ UNCHANGED <<config, context, batch_queue, batch_lock, batch_timer, call,
                 result, log_entries, sent, nextId, enqueued, disposed, httpVars,
                 context_arg, nl_config, nl_global_context, nl_loggers,
                 ai_loggers, adapterVars>>

\* with cls._lock: the thread waits until the lock is free. A loop over
\* cls._loggers.values() then visits the loggers registered now, in order.
RegistryAcquire(t) ==
  /\ pc[t] = "registry"
  /\ nl_lock = None
  /\ nl_lock' = t
  /\ frame' = [frame EXCEPT ![t].todo = LoggersValues]
  /\ pc' = [pc EXCEPT ![t] = IF call[t].op = "get_logger" THEN "lookup" ELSE "loop"]
  /\ UNCHANGED <<config, context, batch_queue, batch_lock, batch_timer, call,
                 result, log_entries, sent, nextId, enqueued, disposed, httpVars,
                 context_arg, nl_config, nl_global_context, nl_loggers,
                 ai_loggers, adapterVars>>

\* The end of the with block and of the call: the lock is released and the
\* call returns (get_logger: the logger found or made).
RegistryRelease(t) ==
  /\ \/ pc[t] = "release"
     \/ pc[t] = "loop" /\ frame[t].todo = <<>>
  /\ nl_lock' = IF nl_lock = t THEN None ELSE nl_lock
  /\ pc' = [pc EXCEPT ![t] = "idle"]
  /\ result' = [result EXCEPT ![t] = "returned"]
  /\ UNCHANGED <<config, context, batch_queue, batch_lock, batch_timer, call,
                 log_entries, sent, nextId, enqueued, disposed, httpVars,
                 context_arg, nl_config, nl_global_context, nl_loggers,
                 ai_loggers, frame, adapterVars>>

\* Variant: the loop of set_global_context passes over the logger without
\* setting its context.
ApplyGlobalContext_Skip(t) ==
  /\ pc[t] = "loop"
  /\ call[t].op = "set_global_context"
  /\ frame[t].todo # <<>>
  /\ frame' = [frame EXCEPT ![t].todo = Tail(@),
                            ![t].done = Append(@, Head(frame[t].todo))]
  /\ UNCHANGED <<config, context, batch_queue, batch_lock, batch_timer, pc, call,
                 result, log_entries, sent, nextId, enqueued, disposed, httpVars,
                 context_arg, nl_config, nl_global_context, nl_lock, nl_loggers,
                 ai_loggers, adapterVars>>

\* NeuralLog.set_global_context under the registry lock, one turn of its
\* loop: set_context on the next logger with the class variable as it is
\* now. The logger's context becomes a dict of its own.
ApplyGlobalContext(t) ==
  /\ pc[t] = "loop"
  /\ call[t].op = "set_global_context"
  /\ frame[t].todo # <<>>
  /\ LET logger == Head(frame[t].todo) IN
       /\ IF logger = MainLogger
          THEN /\ context' = nl_global_context
               /\ context_arg' = [context_arg EXCEPT !.same_object = FALSE]
               /\ UNCHANGED ai_loggers
          ELSE /\ ai_loggers' = [ai_loggers EXCEPT ![logger].context = nl_global_context]
               /\ UNCHANGED <<context, context_arg>>
       /\ frame' = [frame EXCEPT ![t].todo = Tail(@), ![t].done = Append(@, logger)]
  /\ UNCHANGED <<config, batch_queue, batch_lock, batch_timer, pc, call, result,
                 log_entries, sent, nextId, enqueued, disposed, httpVars,
                 nl_config, nl_global_context, nl_lock, nl_loggers, adapterVars>>

\* NeuralLog.get_logger(log_name), up to the registry lock: an empty name
\* raises ValueError.
GetLogger(t, log_name) ==
  /\ pc[t] = "idle"
  /\ call' = [call EXCEPT ![t] = [op |-> "get_logger", message |-> None]]
  /\ frame' = [frame EXCEPT ![t].log_name = log_name, ![t].todo = <<>>,
                            ![t].done = <<>>]
  /\ IF log_name = ""
     THEN Raise(t, "ValueError")
     ELSE /\ pc' = [pc EXCEPT ![t] = "registry"]
          /\ result' = [result EXCEPT ![t] = "pending"]
  /\ UNCHANGED <<config, context, batch_queue, batch_lock, batch_timer,
                 log_entries, sent, nextId, enqueued, disposed, httpVars,
                 context_arg, nl_config, nl_global_context, nl_lock, nl_loggers,
                 ai_loggers, adapterVars>>

\* get_logger under the lock: if log_name not in cls._loggers. A known name
\* is answered from the registry.
GetLoggerLookup(t) ==
  /\ pc[t] = "lookup"
  /\ IF Registered(frame[t].log_name)
     THEN /\ frame' = [frame EXCEPT ![t].logger = <<Lookup(frame[t].log_name)>>]
          /\ pc' = [pc EXCEPT ![t] = "release"]
     ELSE /\ pc' = [pc EXCEPT ![t] = "create"]
          /\ UNCHANGED frame
  /\ UNCHANGED <<config, context, batch_queue, batch_lock, batch_timer, call,
                 result, log_entries, sent, nextId, enqueued, disposed, httpVars,
                 context_arg, nl_config, nl_global_context, nl_lock, nl_loggers,
                 ai_loggers, adapterVars>>

\* AILogger(log_name, cls._config), then set_context(cls._global_context) if
\* that is not empty. direct: set_context was called on it by a caller.
NewLogger(log_name) ==
  [log_name |-> log_name, config |-> nl_config,
   context |-> IF nl_global_context # EmptyDict THEN nl_global_context ELSE EmptyDict,
   direct |-> FALSE]

\* get_logger under the lock, for a name not in the registry: the logger is
\* constructed, given the global context and registered; the call returns
\* the registry's entry.
GetLoggerCreate(t) ==
  /\ pc[t] = "create"
  /\ ai_loggers' = Append(ai_loggers, NewLogger(frame[t].log_name))
  /\ nl_loggers' = Insert(frame[t].log_name, Len(ai_loggers) + 1)
  /\ frame' = [frame EXCEPT ![t].logger = <<Len(ai_loggers) + 1>>]
  /\ pc' = [pc EXCEPT ![t] = "release"]
  /\ UNCHANGED <<config, context, batch_queue, batch_lock, batch_timer, call,
                 result, log_entries, sent, nextId, enqueued, disposed, httpVars,
                 context_arg, nl_config, nl_global_context, nl_lock, adapterVars>>

\* set_context(context) called by a producer on the logger get_logger
\* returned to it.
LoggerSetContext(t, c) ==
  /\ pc[t] = "idle"
  /\ frame[t].logger # <<>>
  /\ frame[t].logger[1] # MainLogger
  /\ ai_loggers' = [ai_loggers EXCEPT ![frame[t].logger[1]].context = c,
                                      ![frame[t].logger[1]].direct = TRUE]
  /\ call' = [call EXCEPT ![t] = [op |-> "set_context", message |-> None]]
  /\ result' = [result EXCEPT ![t] = "returned"]
  /\ UNCHANGED <<config, context, batch_queue, batch_lock, batch_timer, pc,
                 log_entries, sent, nextId, enqueued, disposed, httpVars,
                 context_arg, nl_config, nl_global_context, nl_lock, nl_loggers,
                 frame, adapterVars>>

\* NeuralLog.flush_all(), up to the registry lock.
FlushAll(t) ==
  /\ pc[t] = "idle"
  /\ call' = [call EXCEPT ![t] = [op |-> "flush_all", message |-> None]]
  /\ result' = [result EXCEPT ![t] = "pending"]
  /\ pc' = [pc EXCEPT ![t] = "registry"]
  /\ frame' = [frame EXCEPT ![t].todo = <<>>, ![t].done = <<>>]
  /\ UNCHANGED <<config, context, batch_queue, batch_lock, batch_timer,
                 log_entries, sent, nextId, enqueued, disposed, httpVars,
                 context_arg, nl_config, nl_global_context, nl_lock, nl_loggers,
                 ai_loggers, adapterVars>>

\* Variant: the loop of flush_all calls flush() on the logger and keeps it
\* for another turn while it has not been flushed twice.
FlushAllNext_Twice(t) ==
  /\ pc[t] = "loop"
  /\ call[t].op = "flush_all"
  /\ frame[t].todo # <<>>
  /\ LET logger == Head(frame[t].todo) IN
       /\ frame' = [frame EXCEPT
                      ![t].todo = IF logger \in Range(frame[t].done) THEN Tail(@) ELSE @,
                      ![t].done = Append(@, logger)]
       /\ pc' = [pc EXCEPT ![t] = IF logger = MainLogger /\ Batching
                                  THEN "acquire" ELSE "loop"]
  /\ UNCHANGED <<config, context, batch_queue, batch_lock, batch_timer, call,
                 result, log_entries, sent, nextId, enqueued, disposed, httpVars,
                 context_arg, nl_config, nl_global_context, nl_lock, nl_loggers,
                 ai_loggers, adapterVars>>

\* NeuralLog.flush_all under the registry lock, one turn of its loop:
\* logger.flush() on the next logger. On the logger followed in detail the
\* call goes through _send_batch and comes back to the loop; done records
\* the loggers flush() was called on.
FlushAllNext(t) ==
  /\ pc[t] = "loop"
  /\ call[t].op = "flush_all"
  /\ frame[t].todo # <<>>
  /\ LET logger == Head(frame[t].todo) IN
       /\ frame' = [frame EXCEPT ![t].todo = Tail(@), ![t].done = Append(@, logger)]
       /\ pc' = [pc EXCEPT ![t] = IF logger = MainLogger /\ Batching
                                  THEN "acquire" ELSE "loop"]
  /\ UNCHANGED <<config, context, batch_queue, batch_lock, batch_timer, call,
                 result, log_entries, sent, nextId, enqueued, disposed, httpVars,
                 context_arg, nl_config, nl_global_context, nl_lock, nl_loggers,
                 ai_loggers, adapterVars>>

\* Variant: configure hands the new configuration to the loggers of the
\* registry as well.
Configure_Reconfigures(t, cfg) ==
  /\ pc[t] = "idle"
  /\ nl_config' = cfg
  /\ ai_loggers' = [i \in 1..Len(ai_loggers) |-> [ai_loggers[i] EXCEPT !.config = cfg]]
  /\ call' = [call EXCEPT ![t] = [op |-> "configure", message |-> None]]
  /\ result' = [result EXCEPT ![t] = "returned"]
  /\ UNCHANGED <<config, context, batch_queue, batch_lock, batch_timer, pc,
                 log_entries, sent, nextId, enqueued, disposed, httpVars,
                 context_arg, nl_global_context, nl_lock, nl_loggers, frame,
                 adapterVars>>

\* NeuralLog.configure(config) with a configuration object: the class
\* variable is rebound; the logger keeps the object it was made with.
Configure(t, cfg) ==
  /\ pc[t] = "idle"
  /\ nl_config' = cfg
  /\ call' = [call EXCEPT ![t] = [op |-> "configure", message |-> None]]
  /\ result' = [result EXCEPT ![t] = "returned"]
  /\ UNCHANGED <<config, context, batch_queue, batch_lock, batch_timer, pc,
                 log_entries, sent, nextId, enqueued, disposed, httpVars,
                 context_arg, nl_global_context,
                 registryVars, adapterVars>>

\* Acquire with the lock's wait left out: the body runs whether or not another
\* thread is in it.
Acquire_NoWait(t) ==
  /\ pc[t] = "acquire"
  /\ batch_lock' = t
  /\ pc' = [pc EXCEPT ![t] = "check_empty"]
  /\ UNCHANGED <<config, context, batch_queue, batch_timer, call, result,
                 log_entries, sent, nextId, enqueued, disposed, httpVars, appVars>>

\* _send_batch: `with self.batch_lock`, which blocks while another thread holds it.
Acquire(t) ==
  /\ pc[t] = "acquire"
  /\ batch_lock = None
  /\ batch_lock' = t
  /\ pc' = [pc EXCEPT ![t] = "check_empty"]
  /\ UNCHANGED <<config, context, batch_queue, batch_timer, call, result,
                 log_entries, sent, nextId, enqueued, disposed, httpVars, appVars>>

\* Variant: _send_batch takes the registry lock for its test of the queue,
\* while it holds the flush lock.
CheckEmpty_UnderRegistryLock(t) ==
  /\ pc[t] = "check_empty"
  /\ nl_lock \in {None, t}
  /\ IF batch_queue = <<>>
     THEN /\ batch_lock' = None
          /\ Return(t)
          /\ UNCHANGED log_entries
     ELSE /\ log_entries' = [log_entries EXCEPT ![t] = <<>>]
          /\ pc' = [pc EXCEPT ![t] = "drain"]
          /\ UNCHANGED <<batch_lock, result>>
  /\ UNCHANGED <<config, context, batch_queue, batch_timer, call,
                 sent, nextId, enqueued, disposed, httpVars, appVars>>

\* Variant: the early return on an empty queue leaves the lock held.
CheckEmpty_KeepsLock(t) ==
  /\ pc[t] = "check_empty"
  /\ IF batch_queue = <<>>
     THEN /\ Return(t)
          /\ UNCHANGED <<batch_lock, log_entries>>
     ELSE /\ log_entries' = [log_entries EXCEPT ![t] = <<>>]
          /\ pc' = [pc EXCEPT ![t] = "drain"]
          /\ UNCHANGED <<batch_lock, result>>
  /\ UNCHANGED <<config, context, batch_queue, batch_timer, call,
                 sent, nextId, enqueued, disposed, httpVars, appVars>>

\* _send_batch: `if self.batch_queue.empty(): return`
CheckEmpty(t) ==
  /\ pc[t] = "check_empty"
  /\ IF batch_queue = <<>>
     THEN /\ batch_lock' = None
          /\ Return(t)
          /\ UNCHANGED log_entries
     ELSE /\ log_entries' = [log_entries EXCEPT ![t] = <<>>]
          /\ pc' = [pc EXCEPT ![t] = "drain"]
          /\ UNCHANGED <<batch_lock, result>>
  /\ UNCHANGED <<config, context, batch_queue, batch_timer, call,
                 sent, nextId, enqueued, disposed, httpVars, appVars>>

\* Variant: the drain takes the newest entry of the queue first.
Drain_Lifo(t) ==
  /\ pc[t] = "drain"
  /\ IF batch_queue # <<>> /\ Len(log_entries[t]) < config.batch_size
     THEN /\ log_entries' = [log_entries EXCEPT ![t] = Append(@, batch_queue[Len(batch_queue)])]
          /\ batch_queue' = SubSeq(batch_queue, 1, Len(batch_queue) - 1)
          /\ UNCHANGED <<batch_lock, pc, result, sent>>
     ELSE IF log_entries[t] = <<>>
     THEN /\ batch_lock' = None
          /\ Return(t)
          /\ UNCHANGED <<batch_queue, log_entries, sent>>
     ELSE /\ sent' = Append(sent, [kind |-> "batch", entries |-> log_entries[t],
                                   by |-> t, status |-> "inflight"])
          /\ pc' = [pc EXCEPT ![t] = "sending"]
          /\ UNCHANGED <<batch_queue, batch_lock, log_entries, result>>
  /\ UNCHANGED <<config, context, batch_timer, call, nextId, enqueued, disposed,
                 httpVars, appVars>>

\* Variant: the drain loop runs once more than batch_size allows.
Drain_OneMore(t) ==
  /\ pc[t] = "drain"
  /\ IF batch_queue # <<>> /\ Len(log_entries[t]) <= config.batch_size
     THEN /\ log_entries' = [log_entries EXCEPT ![t] = Append(@, Head(batch_queue))]
          /\ batch_queue' = Tail(batch_queue)
          /\ UNCHANGED <<batch_lock, pc, result, sent>>
     ELSE IF log_entries[t] = <<>>
     THEN /\ batch_lock' = None
          /\ Return(t)
          /\ UNCHANGED <<batch_queue, log_entries, sent>>
     ELSE /\ sent' = Append(sent, [kind |-> "batch", entries |-> log_entries[t],
                                   by |-> t, status |-> "inflight"])
          /\ pc' = [pc EXCEPT ![t] = "sending"]
          /\ UNCHANGED <<batch_queue, batch_lock, log_entries, result>>
  /\ UNCHANGED <<config, context, batch_timer, call, nextId, enqueued, disposed,
                 httpVars, appVars>>

\* Variant: the batch is built with the context stored at the time of the flush.
Drain_LateMerge(t) ==
  /\ pc[t] = "drain"
  /\ IF batch_queue # <<>> /\ Len(log_entries[t]) < config.batch_size
     THEN /\ log_entries' = [log_entries EXCEPT ![t] = Append(@, Head(batch_queue))]
          /\ batch_queue' = Tail(batch_queue)
          /\ UNCHANGED <<batch_lock, pc, result, sent>>
     ELSE IF log_entries[t] = <<>>
     THEN /\ batch_lock' = None
          /\ Return(t)
          /\ UNCHANGED <<batch_queue, log_entries, sent>>
     ELSE /\ sent' = Append(sent, [kind |-> "batch", entries |-> [j \in 1..Len(log_entries[t]) |->
                                     [log_entries[t][j] EXCEPT !.data = Merge(context, @)]],
                                   by |-> t, status |-> "inflight"])
          /\ pc' = [pc EXCEPT ![t] = "sending"]
          /\ UNCHANGED <<batch_queue, batch_lock, log_entries, result>>
  /\ UNCHANGED <<config, context, batch_timer, call, nextId, enqueued, disposed,
                 httpVars, appVars>>

\* Drain reading the head of the queue without removing it.
Drain_Peek(t) ==
  /\ pc[t] = "drain"
  /\ IF batch_queue # <<>> /\ Len(log_entries[t]) < config.batch_size
     THEN /\ log_entries' = [log_entries EXCEPT ![t] = Append(@, Head(batch_queue))]
          /\ UNCHANGED <<batch_queue, batch_lock, pc, result, sent>>
     ELSE /\ sent' = Append(sent, [kind |-> "batch", entries |-> log_entries[t],
                                   by |-> t, status |-> "inflight"])
          /\ pc' = [pc EXCEPT ![t] = "sending"]
          /\ UNCHANGED <<batch_queue, batch_lock, log_entries, result>>
  /\ UNCHANGED <<config, context, batch_timer, call, nextId, enqueued, disposed,
                 httpVars, appVars>>

\* _send_batch: one test of the while loop. While it holds, one get(); when it
\* fails, the batch is serialised and handed to http_client.send (or, with
\* nothing drained, the method returns).
Drain(t) ==
  /\ pc[t] = "drain"
  /\ IF batch_queue # <<>> /\ Len(log_entries[t]) < config.batch_size
     THEN /\ log_entries' = [log_entries EXCEPT ![t] = Append(@, Head(batch_queue))]
          /\ batch_queue' = Tail(batch_queue)
          /\ UNCHANGED <<batch_lock, pc, result, sent>>
     ELSE IF log_entries[t] = <<>>
     THEN /\ batch_lock' = None
          /\ Return(t)
          /\ UNCHANGED <<batch_queue, log_entries, sent>>
     ELSE /\ sent' = Append(sent, [kind |-> "batch", entries |-> log_entries[t],
                                   by |-> t, status |-> "inflight"])
          /\ pc' = [pc EXCEPT ![t] = "sending"]
          /\ UNCHANGED <<batch_queue, batch_lock, log_entries, result>>
  /\ UNCHANGED <<config, context, batch_timer, call, nextId, enqueued, disposed,
                 httpVars, appVars>>

\* The index in sent of the send thread t is in.
InFlight(t) == CHOOSE i \in 1..Len(sent) : sent[i].by = t /\ sent[i].status = "inflight"

\* Variant: a failed send ends the timer thread before it starts a new timer.
SendBatchDone_FailureEndsTimer(t, outcome) ==
  /\ pc[t] = "sending"
  /\ sent' = [sent EXCEPT ![InFlight(t)] = [@ EXCEPT !.status = outcome, !.by = None]]
  /\ batch_lock' = None
  /\ log_entries' = [log_entries EXCEPT ![t] = <<>>]
  /\ IF t \in Timers /\ outcome = "failed"
     THEN pc' = [pc EXCEPT ![t] = "none"] /\ UNCHANGED result
     ELSE Return(t)
  /\ UNCHANGED <<config, context, batch_queue, batch_timer, call, nextId,
                 enqueued, disposed, httpVars, appVars>>

\* SendBatchDone putting the entries of a failed batch back on the queue.
SendBatchDone_Requeue(t, outcome) ==
  /\ pc[t] = "sending"
  /\ sent' = [sent EXCEPT ![InFlight(t)] = [@ EXCEPT !.status = outcome, !.by = None]]
  /\ batch_queue' = IF outcome = "failed" THEN batch_queue \o log_entries[t]
                    ELSE batch_queue
  /\ batch_lock' = None
  /\ log_entries' = [log_entries EXCEPT ![t] = <<>>]
  /\ Return(t)
  /\ UNCHANGED <<config, context, batch_timer, call, nextId,
                 enqueued, disposed, httpVars, appVars>>

\* _send_batch: http_client.send comes back; `except Exception` swallows a
\* failure, and leaving the with block releases the lock.
SendBatchDone(t, outcome) ==
  /\ pc[t] = "sending"
  /\ sent' = [sent EXCEPT ![InFlight(t)] = [@ EXCEPT !.status = outcome, !.by = None]]
  /\ batch_lock' = None
  /\ log_entries' = [log_entries EXCEPT ![t] = <<>>]
  /\ Return(t)
  /\ UNCHANGED <<config, context, batch_queue, batch_timer, call, nextId,
                 enqueued, disposed, httpVars, appVars>>

\* SendLogEntryDone without the try/except: the failure of send reaches the
\* caller of log().
SendLogEntryDone_Propagate(t, outcome) ==
  /\ pc[t] = "sending_single"
  /\ sent' = [sent EXCEPT ![InFlight(t)] = [@ EXCEPT !.status = outcome, !.by = None]]
  /\ IF outcome = "failed" THEN Raise(t, "RequestException") ELSE Return(t)
  /\ UNCHANGED <<config, context, batch_queue, batch_lock, batch_timer, call,
                 log_entries, nextId, enqueued, disposed, httpVars, appVars>>

\* _send_log_entry: http_client.send comes back; `except Exception` swallows a
\* failure.
SendLogEntryDone(t, outcome) ==
  /\ pc[t] = "sending_single"
  /\ sent' = [sent EXCEPT ![InFlight(t)] = [@ EXCEPT !.status = outcome, !.by = None]]
  /\ Return(t)
  /\ UNCHANGED <<config, context, batch_queue, batch_lock, batch_timer, call,
                 log_entries, nextId, enqueued, disposed, httpVars, appVars>>

(* ------------------------------ the timer ----------------------------- *)

\* threading.Timer.cancel(): a timer still waiting never runs its function; one
\* whose function has started, or that has finished, is not affected.
Cancel(p, tm) == IF tm # None /\ p[tm] = "pending" THEN [p EXCEPT ![tm] = "none"] ELSE p

\* The interval of a waiting timer elapses: its thread calls
\* _batch_timer_callback, which starts with _send_batch().
TimerFire(t) ==
  /\ pc[t] = "pending"
  /\ pc' = [pc EXCEPT ![t] = "acquire"]
  /\ UNCHANGED <<config, context, batch_queue, batch_lock, batch_timer, call, result,
                 log_entries, sent, nextId, enqueued, disposed, httpVars, appVars>>

\* The callback ending without starting a new timer.
StartBatchTimer_NoRestart(t) ==
  /\ pc[t] = "restart"
  /\ pc' = [pc EXCEPT ![t] = "none"]
  /\ UNCHANGED <<config, context, batch_queue, batch_lock, batch_timer, call, result,
                 log_entries, sent, nextId, enqueued, disposed, httpVars, appVars>>

\* _batch_timer_callback after _send_batch: _start_batch_timer() cancels the
\* timer self.batch_timer references, creates and starts a new one; the
\* callback's thread then ends.
StartBatchTimer(t) ==
  /\ pc[t] = "restart"
  /\ \E new \in Timers :
       /\ new # t
       /\ Cancel(pc, batch_timer)[new] = "none"
       /\ pc' = [Cancel(pc, batch_timer) EXCEPT ![new] = "pending", ![t] = "none"]
       /\ batch_timer' = new
  /\ UNCHANGED <<config, context, batch_queue, batch_lock, call, result,
                 log_entries, sent, nextId, enqueued, disposed, httpVars, appVars>>

\* __del__
Dispose ==
  /\ ~disposed
  /\ disposed' = TRUE
  /\ pc' = Cancel(pc, batch_timer)
  /\ UNCHANGED <<config, context, batch_queue, batch_lock, batch_timer, call, result,
                 log_entries, sent, nextId, enqueued, httpVars, appVars>>

(* ---------------------------- HttpClient.send ------------------------- *)

\* response.raise_for_status() raises HTTPError for a 4xx or 5xx status; a
\* network failure is raised by session.request() itself.
Failed(reply) == reply.exc # None \/ (400 <= reply.status /\ reply.status < 600)

\* The RequestException attempt number n ends with.
ExceptionOf(reply, n) ==
  [type |-> IF reply.exc # None THEN reply.exc ELSE "HTTPError",
   status |-> reply.status, attempt |-> n]

LoopTest_OffByOne(r) == r < config.max_retries

\* `while retries <= self.config.max_retries`, and the same test before the sleep
LoopTest(r) == r <= config.max_retries

BackoffMs_NoMinusOne(r) == config.retry_backoff_ms * 2^r

\* The delay before the next attempt, in milliseconds: time.sleep gets it
\* divided by 1000, in seconds.
BackoffMs(r) == config.retry_backoff_ms * 2^(r - 1)

\* One session.request() of the loop, with raise_for_status and the return.
SendRequest(reply) ==
  /\ send_pc = "loop"
  /\ LoopTest(retries)
  /\ requests' = Append(requests, reply)
  /\ IF Failed(reply)
     THEN /\ last_exception' = ExceptionOf(reply, Len(requests) + 1)
          /\ send_pc' = "except"
          /\ UNCHANGED send_result
     ELSE /\ send_result' = [kind |-> "returned",
                             value |-> IF reply.status = 204 THEN "{}" ELSE "json"]
          /\ send_pc' = "done"
          /\ UNCHANGED last_exception
  /\ UNCHANGED <<config, loggerVars, appVars, retries, sleeps>>

\* Variant: the except clause sleeps after the last attempt too.
SendExcept_SleepsAlways ==
  /\ send_pc = "except"
  /\ retries' = retries + 1
  /\ sleeps' = Append(sleeps, [delay_ms |-> BackoffMs(retries + 1),
                                after |-> Len(requests)])
  /\ send_pc' = "loop"
  /\ UNCHANGED <<config, loggerVars, appVars, last_exception, requests, send_result>>

\* The except clause: count the retry and, if another attempt follows, sleep.
SendExcept ==
  /\ send_pc = "except"
  /\ retries' = retries + 1
  /\ sleeps' = IF LoopTest(retries + 1)
               THEN Append(sleeps, [delay_ms |-> BackoffMs(retries + 1),
                                    after |-> Len(requests)])
               ELSE sleeps
  /\ send_pc' = "loop"
  /\ UNCHANGED <<config, loggerVars, appVars, last_exception, requests, send_result>>

\* The loop is left: `raise last_exception`.
SendRaise ==
  /\ send_pc = "loop"
  /\ ~LoopTest(retries)
  /\ send_result' = [kind |-> "raised", value |-> last_exception]
  /\ send_pc' = "done"
  /\ UNCHANGED <<config, loggerVars, appVars, retries, last_exception, requests, sleeps>>

\* One call of send(): the state after `retries = 0; last_exception = None`.
SendInit ==
  /\ config \in SendConfigs
  /\ LoggerInit
  /\ AppInit
  /\ send_pc = "loop" /\ retries = 0 /\ last_exception = None
  /\ requests = <<>> /\ sleeps = <<>> /\ send_result = [kind |-> None, value |-> None]

SendNext ==
  \/ \E reply \in Replies : SendRequest(reply)
  \/ SendExcept
  \/ SendRaise

SendSpec == SendInit /\ [][SendNext]_vars

(* --------------------------- specifications --------------------------- *)

\* One step of a call already in progress on thread t.
Step(t) ==
  \/ CheckSize(t)
  \/ Acquire(t)
  \/ CheckEmpty(t)
  \/ Drain(t)
  \/ \E o \in SendOutcomes : SendBatchDone(t, o)
  \/ \E o \in SendOutcomes : SendLogEntryDone(t, o)
  \/ TimerFire(t)
  \/ StartBatchTimer(t)

\* Concurrent producers and timer threads on one logger; every event carries
\* the same message and no data.
Next ==
  \/ \E t \in Producers : Log(t, "info", "m", EmptyDict)
  \/ \E t \in Producers : Flush(t)
  \/ \E t \in Threads : Step(t)
  \/ Dispose

Spec == Init /\ [][Next]_vars

\* The same threads with no disposal, every thread that can take a step of the
\* call it is in eventually taking it: sends terminate, timers fire, the
\* scheduler starves no thread.
LiveNext ==
  \/ \E t \in Producers : Log(t, "info", "m", EmptyDict)
  \/ \E t \in Producers : Flush(t)
  \/ \E t \in Threads : Step(t)

LiveSpec == Init /\ [][LiveNext]_vars /\ \A t \in Threads : WF_vars(Step(t))

\* One producer using the whole interface of the logger (the wrappers info()
\* and error(), empty and non-empty messages, with and without data,
\* set_context), with the timer threads.
ApiNext ==
  \/ \E l \in {"info", "error"}, m \in Messages, d \in DataArgs :
        nextId <= MaxApiEvents /\ Log("p1", l, m, d)
  \/ Flush("p1")
  \/ \E c \in Contexts : SetContext("p1", c)
  \/ \E t \in Threads : Step(t)

ApiSpec == Init /\ [][ApiNext]_vars

(* ------------------------ properties of the flush --------------------- *)

\* Thread t is inside the body of _send_batch's with block.
InFlush(t) == pc[t] \in {"check_empty", "drain", "sending"}
Batches == {i \in 1..Len(sent) : sent[i].kind = "batch"}
\* The places (batch, position) of the entries handed to the transport in batches.
Handed == {<<i, j>> : i \in Batches, j \in 1..MaxBatchSize + 1} \cap
          {x \in (1..Len(sent)) \X (1..MaxBatchSize + 1) : x[2] <= Len(sent[x[1]].entries)}
Draining == {t \in Threads : pc[t] = "drain"}

\* C1: at most one flush (drain of the queue plus batch send) of a logger is in
\* progress at any time; a flush that starts while another runs waits at the
\* lock until that one has released it.
C1_OneFlushAtATime ==
  /\ Cardinality({t \in Threads : InFlush(t)}) <= 1
  /\ Cardinality({i \in Batches : sent[i].status = "inflight"}) <= 1
  /\ \A t \in Threads : InFlush(t) <=> batch_lock = t
  /\ \A t \in Threads : (pc[t] = "acquire" /\ batch_lock # None) => ~ENABLED Acquire(t)

\* A batch is being sent while another thread waits for the lock to flush.
C1_Witness ==
  \E t, u \in Threads : t # u /\ pc[t] = "sending" /\ pc[u] = "acquire"

\* C2: every entry handed to the transport in a batch was enqueued before, no
\* entry is in two batches or twice in one, and every entry a flush has taken
\* off the queue is in the list that flush is filling or in the batch it handed
\* to the transport: each enqueued entry is in exactly one of these places.
C2_NoDuplicateNoLoss ==
  /\ \A x \in Handed : sent[x[1]].entries[x[2]] \in Range(enqueued)
  /\ \A x, y \in Handed :
        sent[x[1]].entries[x[2]] = sent[y[1]].entries[y[2]] => x = y
  /\ \A e \in Range(enqueued) :
        Cardinality({k \in 1..Len(batch_queue) : batch_queue[k] = e})
        + Cardinality({<<t, k>> \in Draining \X (1..MaxBatchSize + 1) :
                         k <= Len(log_entries[t]) /\ log_entries[t][k] = e})
        + Cardinality({x \in Handed : sent[x[1]].entries[x[2]] = e}) = 1
  /\ \A t \in Threads : pc[t] = "sending" => sent[InFlight(t)].entries = log_entries[t]

\* Two batches have been handed over, the second still in flight, while a
\* producer has put a further entry on the queue.
C2_Witness ==
  /\ Cardinality(Batches) >= 2
  /\ \E t \in Threads : pc[t] = "sending"
  /\ batch_queue # <<>>

\* C4: once __del__ has cancelled the timer, no timer-triggered flush starts.
C4_NoTimerFlushAfterDisposal ==
  [][disposed => \A t \in Timers : ~(pc[t] = "pending" /\ pc'[t] = "acquire")]_vars

\* C8: the entries of a batch whose send failed are dropped: they are not on
\* the queue, in no list being drained and in no other batch, and no producer's
\* log() or flush() ends with the failure.
C8_FailedBatchDropped ==
  /\ \A i \in Batches : sent[i].status = "failed" =>
        \A e \in Range(sent[i].entries) :
          /\ e \notin Range(batch_queue)
          /\ \A t \in Threads : e \notin Range(log_entries[t])
          /\ \A j \in Batches \ {i} : e \notin Range(sent[j].entries)
  /\ \A t \in Producers : result[t] \in {None, "pending", "returned", "ValueError"}

\* A batch failed, a later batch was handed to the transport and has come back, and
\* no call is in progress.
C8_Witness ==
  /\ \E i, j \in Batches : i < j /\ sent[i].status = "failed" /\ sent[j].status # "inflight"
  /\ \A t \in Producers : pc[t] = "idle" /\ result[t] = "returned"

(* ------------------------- eventual delivery -------------------------- *)

OnQueue(id) == \E k \in 1..Len(batch_queue) : batch_queue[k].id = id
HandedOver(id) == \E x \in Handed : sent[x[1]].entries[x[2]].id = id

\* C3: with the flush timer running (async mode, batch_interval > 0,
\* batch_size > 1, no disposal), every entry on the queue is eventually handed
\* to the transport in a batch, whether or not batch_size entries are pending
\* and whether or not flush() is called.
C3_EventuallySent ==
  \A id \in 1..MaxEvents :
    (TimerConfigured /\ Batching /\ OnQueue(id)) ~> HandedOver(id)

\* A timer thread is sending a batch of fewer than batch_size entries, and no
\* producer has called flush().
C3_Witness ==
  /\ \E t \in Timers : pc[t] = "sending" /\ Len(log_entries[t]) < config.batch_size
  /\ \A p \in Producers : call[p].op # "flush" /\ pc[p] = "idle"

(* ----------------------- properties of send() ------------------------- *)

NumFailed == Cardinality({i \in 1..Len(requests) : Failed(requests[i])})

\* C5: send() issues max_retries + 1 requests when every attempt fails, and then
\* raises the exception of the last attempt; when attempt k is the first to
\* succeed it has issued k requests and returns, and no request follows a
\* success.
C5_AttemptCount ==
  /\ Len(requests) <= config.max_retries + 1
  /\ \A i \in 1..Len(requests) : ~Failed(requests[i]) => i = Len(requests)
  /\ (send_pc = "done" /\ NumFailed = Len(requests)) =>
        /\ Len(requests) = config.max_retries + 1
        /\ send_result.kind = "raised"
        /\ send_result.value = ExceptionOf(requests[Len(requests)], Len(requests))
  /\ (Len(requests) > 0 /\ ~Failed(requests[Len(requests)])) =>
        /\ send_pc = "done"
        /\ send_result.kind = "returned"
  /\ send_pc = "done" => ~ENABLED SendNext
  /\ (NumFailed = config.max_retries + 1) => send_pc # "loop" \/ ENABLED SendRaise

\* send() has returned after a second attempt, the first having failed.
C5_Witness ==
  /\ send_pc = "done" /\ send_result.kind = "returned"
  /\ Len(requests) = 2 /\ config.max_retries >= 2

\* C6: a 4xx response ends the send: no request is issued after it.
C6_NoRetryOfClientError ==
  \A i \in 1..Len(requests) :
    (requests[i].exc = None /\ requests[i].status \in 400..499) => i = Len(requests)

\* C7: the n-th sleep of a send() comes after exactly n requests, all failed, and
\* lasts retry_backoff_ms * 2^(n-1); there are at most max_retries sleeps, none
\* before the first request and none after the last failed attempt, and request
\* n+1 is not issued before sleep n.
C7_Backoff ==
  /\ \A n \in 1..Len(sleeps) :
        /\ sleeps[n].delay_ms = config.retry_backoff_ms * 2^(n - 1)
        /\ sleeps[n].after = n
        /\ Failed(requests[n])
  /\ Len(sleeps) <= config.max_retries
  /\ Len(requests) <= Len(sleeps) + 1
  /\ send_pc # "except" =>
        Len(sleeps) = IF NumFailed < config.max_retries THEN NumFailed
                      ELSE config.max_retries
  /\ send_pc = "except" => Len(sleeps) = NumFailed - 1

\* Every attempt has failed and send() has raised, after max_retries >= 2 sleeps.
C7_Witness ==
  /\ send_pc = "done" /\ send_result.kind = "raised"
  /\ config.max_retries >= 2 /\ Len(sleeps) = config.max_retries

(* ------------------------- properties of log() ------------------------ *)

LogEmpty == [op |-> "log", message |-> ""]

\* C9: a call of log() (or of a wrapper) ends with an exception only if its
\* message is empty; with a non-empty message it returns normally in every
\* routing mode, whether the transport succeeded or failed.
C9_LogRaisesOnlyForEmptyMessage ==
  \A t \in Producers :
    /\ result[t] \notin {None, "pending", "returned"} =>
          (result[t] = "ValueError" /\ call[t] = LogEmpty)
    /\ (call[t].op = "log" /\ call[t].message # "" /\ pc[t] = "idle") =>
          result[t] = "returned"

\* A log() with a non-empty message has returned and the send of the batch or
\* single entry it handed to the transport has failed.
C9_Witness ==
  \E t \in Producers :
    /\ call[t].op = "log" /\ call[t].message # "" /\ pc[t] = "idle"
    /\ result[t] = "returned"
    /\ sent # <<>> /\ sent[Len(sent)].status = "failed"

\* C10: log() with an empty message raises ValueError and changes nothing else:
\* no entry is built, the queue, the transport's history, the context, the lock
\* and the timer are as before.
C10_EmptyMessageNoEffect ==
  [][\A t \in Producers :
       (pc[t] = "idle" /\ call'[t] = LogEmpty
          /\ (call[t] # call'[t] \/ result[t] # result'[t]))
       => /\ result'[t] = "ValueError"
          /\ UNCHANGED <<config, context, batch_queue, batch_lock, batch_timer, pc,
                         log_entries, sent, nextId, enqueued, disposed>>]_vars

\* log("") has raised ValueError on a logger with a context set and an entry
\* pending.
C10_Witness ==
  /\ \E t \in Producers : call[t] = LogEmpty /\ result[t] = "ValueError"
  /\ context # EmptyDict
  /\ batch_queue # <<>>

(* ----------------------- properties of the routing -------------------- *)

\* The hand-offs to the single-entry endpoint (_get_log_url).
Singles == {i \in 1..Len(sent) : sent[i].kind = "single"}

\* C11: with one producer, a logger with async enabled and batch_size > 1 puts
\* the entry of every accepted log() call on the queue and makes no
\* single-entry send; any other logger puts nothing on the queue and makes
\* exactly one single-entry send per accepted call, carrying that call's
\* entry, which is over by the time log() returns.
C11_Routing ==
  IF config.async_enabled /\ config.batch_size > 1
  THEN /\ Singles = {}
       /\ Len(enqueued) = nextId - 1
       /\ \A i \in 1..Len(enqueued) : enqueued[i].id = i
  ELSE /\ batch_queue = <<>>
       /\ enqueued = <<>>
       /\ Len(sent) = nextId - 1
       /\ \A i \in 1..Len(sent) :
            /\ sent[i].kind = "single"
            /\ Len(sent[i].entries) = 1
            /\ sent[i].entries[1].id = i
            /\ pc["p1"] = "idle" => sent[i].status # "inflight"

C11_Witness ==
  /\ config.async_enabled /\ config.batch_size = 1
  /\ Len(sent) = 2
  /\ pc["p1"] = "idle"
  /\ result["p1"] = "returned"

\* Producers that only call log() on a batching logger: no flush() call and
\* no timer firing (a timer that is armed stays pending).
EnqueueInit == Init /\ Batching

EnqueueNext ==
  \/ \E t \in Producers, l \in {"info", "error"} : Log(t, l, "m", EmptyDict)
  \/ \E t \in Producers : CheckSize(t)
  \/ \E t \in Producers : Acquire(t)
  \/ \E t \in Producers : CheckEmpty(t)
  \/ \E t \in Producers : Drain(t)
  \/ \E t \in Producers, o \in SendOutcomes : SendBatchDone(t, o)

EnqueueSpec == EnqueueInit /\ [][EnqueueNext]_vars

\* Producer t's log() call returns in this step.
LogReturns(t) == call[t].op = "log" /\ pc[t] # "idle" /\ pc'[t] = "idle"

\* The statement of C12 as written: a log() call returns either having read a
\* queue size below batch_size and handed nothing over, or having handed a
\* batch over.
C12_SendIffFull ==
  [][\A t \in Producers : LogReturns(t) =>
        \/ pc[t] = "qsize" /\ Len(batch_queue) < config.batch_size /\ sent' = sent
        \/ pc[t] = "sending"]_vars

\* C12: with log() the only call and no timer firing, a log() call hands a
\* batch over only if it read a queue size of at least batch_size after its
\* put, and one that read such a size hands a batch over unless the flush of
\* another producer has emptied the queue first; fewer than batch_size puts
\* hand nothing over, and with batch_size = 2 two log() calls hand over
\* exactly one batch, holding both entries.
C12_SendOnSize ==
  /\ [](Len(enqueued) < config.batch_size => Batches = {})
  /\ []((config.batch_size = 2 /\ nextId = 3 /\ \A t \in Producers : pc[t] = "idle")
          => /\ Cardinality(Batches) = 1
             /\ \A i \in Batches : Len(sent[i].entries) = 2)
  /\ [][\A t \in Producers : LogReturns(t) =>
          \/ pc[t] = "qsize" /\ Len(batch_queue) < config.batch_size /\ sent' = sent
          \/ pc[t] = "sending"
          \/ pc[t] = "check_empty" /\ batch_queue = <<>> /\ Batches # {}]_vars

\* A log() call that read a full queue finds it emptied by the other producer.
C12_Witness ==
  \E t \in Producers :
    /\ call[t].op = "log"
    /\ pc[t] = "check_empty"
    /\ batch_queue = <<>>
    /\ Batches # {}

\* One producer on a batching logger with no timer firing; it calls flush()
\* on an empty queue, or once batch_size log() calls have been accepted.
FlushNext ==
  \/ \E l \in {"info", "error"}, m \in Messages, d \in DataArgs : Log("p1", l, m, d)
  \/ (batch_queue = <<>> \/ nextId > config.batch_size) /\ Flush("p1")
  \/ CheckSize("p1")
  \/ Acquire("p1")
  \/ CheckEmpty("p1")
  \/ Drain("p1")
  \/ \E o \in SendOutcomes : SendBatchDone("p1", o)

FlushSpec == EnqueueInit /\ [][FlushNext]_vars

\* C13: no step of a flush() call that finds the queue empty hands anything
\* to the transport or changes the queue, the context, the timer or the
\* entries made so far, and the lock is free again when the call returns; and
\* with batch_size = 2, once two log() calls and then a flush() have returned,
\* exactly one hand-off has been made, a batch holding the two entries in call
\* order.
C13_FlushOfEmptyQueue ==
  /\ [][(call'["p1"].op = "flush" /\ batch_queue = <<>> /\ log_entries["p1"] = <<>>) =>
          /\ UNCHANGED <<config, context, batch_queue, batch_timer, log_entries,
                         sent, nextId, enqueued, disposed>>
          /\ pc'["p1"] = "idle" => batch_lock' = None]_vars
  /\ []((/\ config.batch_size = 2 /\ nextId = 3
          /\ call["p1"].op = "flush" /\ result["p1"] = "returned")
          => /\ Len(sent) = 1
             /\ sent[1].kind = "batch"
             /\ sent[1].entries = enqueued
             /\ Len(enqueued) = 2 /\ enqueued[1].id = 1 /\ enqueued[2].id = 2)

C13_Witness ==
  /\ config.batch_size = 2 /\ nextId = 3
  /\ call["p1"].op = "flush" /\ result["p1"] = "returned"
  /\ Len(sent) = 1
  /\ batch_queue = <<>>

(* ----------------------- properties of the batches -------------------- *)

\* The entries the flush in progress has taken off the queue so far.
Taken == IF batch_lock = None THEN <<>> ELSE log_entries[batch_lock]

\* The last n elements of sequence s.
Suffix(s, n) == SubSeq(s, Len(s) - n + 1, Len(s))

\* C14: every batch is a run of consecutive entries of the put order; what a
\* flush has taken followed by what is left on the queue is always the newest
\* part of the put order, so the flush takes the oldest pending entries first;
\* and a batch handed over holds min(n, batch_size) entries, n being the number
\* pending at the hand-off (those taken and those still queued).
C14_BatchIsOldestRun ==
  /\ [](\A i \in Batches : \E o \in 0..Len(enqueued) :
          /\ o + Len(sent[i].entries) <= Len(enqueued)
          /\ \A j \in 1..Len(sent[i].entries) : sent[i].entries[j] = enqueued[o + j])
  /\ [](/\ Len(Taken) + Len(batch_queue) <= Len(enqueued)
        /\ Taken \o batch_queue = Suffix(enqueued, Len(Taken) + Len(batch_queue)))
  /\ [][(Len(sent') > Len(sent) /\ sent'[Len(sent')].kind = "batch") =>
          LET n == Len(Taken) + Len(batch_queue) IN
            /\ sent'[Len(sent')].entries = Taken
            /\ Len(Taken) = IF n < config.batch_size THEN n ELSE config.batch_size]_vars

\* A partial batch and a full one have been handed over.
C14_Witness ==
  /\ config.batch_size > 1
  /\ \E i \in Batches : Len(sent[i].entries) < config.batch_size
  /\ \E i \in Batches : Len(sent[i].entries) = config.batch_size

\* C15: every batch handed to the transport holds at least one entry and at
\* most batch_size entries, under every interleaving of producers, flushes
\* and timer callbacks.
C15_BatchSize ==
  \A i \in Batches :
    /\ Len(sent[i].entries) >= 1
    /\ Len(sent[i].entries) <= config.batch_size

\* A batch was cut at batch_size with an entry left on the queue.
C15_Witness ==
  /\ config.batch_size > 1
  /\ batch_queue # <<>>
  /\ \E t \in Threads :
       /\ pc[t] = "sending"
       /\ Len(sent[InFlight(t)].entries) = config.batch_size

\* C16: on a logger in sync mode, or in async mode with batch_size <= 1, a
\* flush() call returns in one step that hands nothing to the transport and
\* changes nothing of the logger.
C16_FlushWithoutBatching ==
  [][\A t \in Producers :
       (/\ ~(config.async_enabled /\ config.batch_size > 1)
        /\ call'[t].op = "flush"
        /\ call'[t] # call[t] \/ result'[t] # result[t])
       => /\ result'[t] = "returned"
          /\ UNCHANGED <<config, context, batch_queue, batch_lock, batch_timer, pc,
                         log_entries, sent, nextId, enqueued, disposed>>]_vars

C16_Witness ==
  /\ config.async_enabled /\ config.batch_size = 1
  /\ call["p1"].op = "flush" /\ result["p1"] = "returned"
  /\ call["p2"].op = "log" /\ pc["p2"] = "sending_single"
  /\ batch_queue = <<>>

(* ------------------------ properties of the timer --------------------- *)

\* C17: a logger in sync mode, or with a batch interval that is not positive,
\* never has a batch timer, and none of its timer threads is ever armed or
\* runs the callback, so no flush of it is made by a timer.
C17_TimerOnlyIfConfigured ==
  ~(config.async_enabled /\ config.batch_interval_ms > 0) =>
    /\ batch_timer = None
    /\ \A t \in Timers : pc[t] = "none" /\ log_entries[t] = <<>>
    /\ \A i \in 1..Len(sent) : sent[i].by \notin Timers

\* A sync logger with an interval configured has sent an entry.
C17_Witness ==
  /\ ~config.async_enabled /\ config.batch_interval_ms > 0
  /\ \E i \in 1..Len(sent) : sent[i].status = "ok"
  /\ call["p1"].op = "flush" /\ result["p1"] = "returned"

(* ----------------------- properties of the context -------------------- *)

\* The LogEntry the last accepted log() call built.
Built == IF Batching THEN enqueued[Len(enqueued)] ELSE sent[Len(sent)].entries[1]

\* C18: the data of the entry a log() call builds has the keys of the stored
\* context and of the caller's data, each key of the caller's data with the
\* caller's value and every other key with the context's value, and the call
\* leaves the stored context as it was.
C18_DataIsContextOverlaid ==
  [][\A l \in {"info", "error"}, d \in DataArgs :
       Log("p1", l, "m", d) =>
         /\ DOMAIN Built'.data = (DOMAIN context) \cup (DOMAIN d)
         /\ \A k \in DOMAIN d : Built'.data[k] = d[k]
         /\ \A k \in (DOMAIN context) \ (DOMAIN d) : Built'.data[k] = context[k]
         /\ context' = context]_vars

\* With context {a: 1}: an entry without data, then one with data {a: 2, b: 3}.
C18_Witness ==
  /\ ~config.async_enabled
  /\ context = ("a" :> 1)
  /\ Len(sent) = 2
  /\ sent[1].entries[1].data = ("a" :> 1)
  /\ sent[2].entries[1].data = ("a" :> 2) @@ ("b" :> 3)

\* One producer that sets the context, with a dict or with None, changes the
\* dict it passed afterwards, and logs; no flush() call and no timer firing.
ContextNext ==
  \/ \E c \in Contexts : SetContext("p1", c)
  \/ SetContextNone("p1")
  \/ \E d \in Mutations(context_arg.value) : MutateContextArg(d)
  \/ \E d \in DataArgs : nextId <= MaxApiEvents /\ Log("p1", "info", "m", d)
  \/ CheckSize("p1")
  \/ Acquire("p1")
  \/ CheckEmpty("p1")
  \/ Drain("p1")
  \/ \E o \in SendOutcomes : SendBatchDone("p1", o)
  \/ \E o \in SendOutcomes : SendLogEntryDone("p1", o)

ContextSpec == Init /\ [][ContextNext]_vars

\* C19: set_context(c) makes the stored context equal to c; a key added to,
\* removed from or rebound in the caller's dict afterwards changes neither the
\* stored context nor any entry, and entries built later take the stored
\* context's values; set_context(None) ends with ValueError and leaves the
\* stored context as it was.
C19_ContextIsACopy ==
  /\ [][/\ \A c \in Contexts :
            SetContext("p1", c) => context' = c /\ result'["p1"] = "returned"
        /\ \A d \in Mutations(context_arg.value) :
            MutateContextArg(d) =>
              context' = context /\ UNCHANGED <<batch_queue, log_entries, sent, enqueued>>
        /\ \A d \in DataArgs :
            Log("p1", "info", "m", d) =>
              \A k \in (DOMAIN context) \ (DOMAIN d) :
                k \in DOMAIN Built'.data /\ Built'.data[k] = context[k]
        /\ call'["p1"].op = "set_context_none" => context' = context]_vars
  /\ [](call["p1"].op = "set_context_none" => result["p1"] = "ValueError")

\* The caller has rebound key a in its dict after set_context({a: 1}); the
\* entry built since has the stored value.
C19_Witness ==
  /\ context_arg.held /\ context_arg.value = ("a" :> 2)
  /\ context = ("a" :> 1)
  /\ call["p1"].op = "log" /\ pc["p1"] = "idle"
  /\ nextId = 2
  /\ Built.data = ("a" :> 1)

\* The configuration the application registers with configure(): sync mode,
\* which would take a logger out of batching mode.
NewConfigs ==
  {cfg \in Configs : ~cfg.async_enabled /\ cfg.batch_size = 1 /\ cfg.batch_interval_ms = 0}

\* One producer on a batching logger that logs without data (the data of an
\* entry is the context it was built under), flushes, sets the context of the
\* logger and the global context, and registers another configuration, with
\* the timer threads.
FrameNext ==
  \/ nextId <= MaxApiEvents /\ Log("p1", "info", "m", EmptyDict)
  \/ Flush("p1")
  \/ \E c \in Contexts : SetContext("p1", c)
  \/ \E c \in Contexts : SetGlobalContext("p1", c)
  \/ RegistryAcquire("p1")
  \/ ApplyGlobalContext("p1")
  \/ RegistryRelease("p1")
  \/ \E cfg \in NewConfigs : Configure("p1", cfg)
  \/ CheckSize("p1")
  \/ \E t \in Threads : Acquire(t)
  \/ \E t \in Threads : CheckEmpty(t)
  \/ \E t \in Threads : Drain(t)
  \/ \E t \in Threads, o \in SendOutcomes : SendBatchDone(t, o)
  \/ \E t \in Threads : TimerFire(t)
  \/ \E t \in Threads : StartBatchTimer(t)

FrameSpec == EnqueueInit /\ [][FrameNext]_vars

\* C20: every entry on the queue, taken by a flush or handed over in a batch
\* is the entry log() built, with its level, message and merged data, whatever
\* set_context, set_global_context and configure calls were made since; and
\* no step of these calls touches the queue, a batch or the logger's
\* configuration.
C20_QueuedEntryIsFrozen ==
  /\ [](/\ \A k \in 1..Len(batch_queue) : batch_queue[k] = enqueued[batch_queue[k].id]
        /\ \A k \in 1..Len(Taken) : Taken[k] = enqueued[Taken[k].id]
        /\ \A i \in Batches : \A j \in 1..Len(sent[i].entries) :
             sent[i].entries[j] = enqueued[sent[i].entries[j].id])
  /\ [][(\/ \E c \in Contexts : SetContext("p1", c) \/ SetGlobalContext("p1", c)
         \/ ApplyGlobalContext("p1")
         \/ \E cfg \in NewConfigs : Configure("p1", cfg))
        => UNCHANGED <<config, batch_queue, log_entries, sent, enqueued>>]_vars

\* The producer's flush hands over an entry built under the empty context,
\* after the context and the registered configuration were changed.
C20_Witness ==
  /\ pc["p1"] = "sending"
  /\ sent[InFlight("p1")].entries[1].data = EmptyDict
  /\ context = ("a" :> 1)
  /\ nl_global_context = ("a" :> 1)
  /\ nl_config # config

(* ---------------------- properties of the latency --------------------- *)

RECURSIVE SumDelays(_)
\* The total of the delays of the sleeps s, in milliseconds.
SumDelays(s) == IF s = <<>> THEN 0 ELSE Head(s).delay_ms + SumDelays(Tail(s))

\* The requests of this send() that ran into the timeout.
TimedOut == {i \in 1..Len(requests) : requests[i].exc = "Timeout"}

\* The time send() has blocked its caller for in requests that ran into the
\* timeout and in sleeps, in milliseconds.
BlockedMs == Cardinality(TimedOut) * TimeoutMs + SumDelays(sleeps)

\* The statement of C25 as written: send() blocks for at most
\* timeout + max_retries * retry_backoff.
C25_LinearBound == BlockedMs <= TimeoutMs + config.max_retries * config.retry_backoff_ms

\* C25: send() blocks its caller for at most (max_retries + 1) timeouts, one
\* per attempt, plus retry_backoff * (2^max_retries - 1) of sleeping, the sum
\* of the doubling delays; a send() whose every attempt fails at its timeout
\* blocks for exactly that long.
C25_LatencyBound ==
  /\ BlockedMs <= (config.max_retries + 1) * TimeoutMs
                  + config.retry_backoff_ms * (2^config.max_retries - 1)
  /\ (send_pc = "done" /\ Cardinality(TimedOut) = config.max_retries + 1)
       => BlockedMs = (config.max_retries + 1) * TimeoutMs
                      + config.retry_backoff_ms * (2^config.max_retries - 1)

\* Every attempt of a send() with two retries has failed at its timeout.
C25_Witness ==
  /\ send_pc = "done"
  /\ config.max_retries = 2
  /\ Cardinality(TimedOut) = 3
  /\ send_result.kind = "raised"

(* ------------------ properties of concurrent producers ---------------- *)

\* A flush has handed its batch to the transport and the send is not over.
FlushInFlight == \E t \in Threads : pc[t] = "sending"

\* C26: while a flush is in flight, a producer that is not in a call can put
\* an entry on the queue at once (the model allows MaxEvents entries); the put
\* adds the entry at the tail and leaves the batch in flight as it is; the
\* end of the send leaves the queue as it is; and with the flush timer
\* running every entry that is on the queue during a flight is handed over by
\* a later flush.
C26_PutDuringFlush ==
  /\ [](\A p \in Producers :
          (FlushInFlight /\ pc[p] = "idle" /\ nextId <= MaxEvents)
            => ENABLED Log(p, "info", "m", EmptyDict))
  /\ [][(FlushInFlight /\ Len(enqueued') > Len(enqueued)) =>
          /\ batch_queue' = Append(batch_queue, enqueued'[Len(enqueued')])
          /\ UNCHANGED <<sent, log_entries, batch_lock>>]_vars
  /\ [][\A t \in Threads : (pc[t] = "sending" /\ pc'[t] # "sending") =>
          batch_queue' = batch_queue]_vars
  /\ \A id \in 1..MaxEvents :
       (/\ config.async_enabled /\ config.batch_interval_ms > 0
        /\ FlushInFlight /\ OnQueue(id)) ~> HandedOver(id)

\* An entry was put on the queue while the batch before it was in flight.
C26_Witness ==
  /\ FlushInFlight
  /\ batch_queue # <<>>
  /\ \E p \in Producers : pc[p] = "qsize" /\ batch_queue[Len(batch_queue)].id = nextId - 1
  /\ \E i \in Batches : sent[i].status = "inflight"

\* No log() or flush() call and no timer callback is in progress.
Quiescent ==
  /\ \A p \in Producers : pc[p] = "idle"
  /\ \A t \in Timers : pc[t] \in {"none", "pending"}

\* C27: on a logger with async enabled and batch_size > 1, whenever no
\* producer is in a call and no timer thread is in its callback, fewer than
\* batch_size entries are on the queue.
C27_QuiescentQueueBelowBatchSize ==
  (config.async_enabled /\ config.batch_size > 1 /\ Quiescent)
    => Len(batch_queue) < config.batch_size

\* All the entries of the behaviour are made; one full batch was handed over
\* and the rest waits on the queue.
C27_Witness ==
  /\ Quiescent
  /\ nextId = MaxEvents + 1
  /\ Len(batch_queue) = config.batch_size - 1
  /\ batch_queue # <<>>
  /\ Batches # {}

RECURSIVE HandedSeq(_)
\* The entries of the first n hand-offs that are batches, in hand-off order.
HandedSeq(n) ==
  IF n = 0 THEN <<>>
  ELSE HandedSeq(n - 1) \o (IF sent[n].kind = "batch" THEN sent[n].entries ELSE <<>>)

\* C28: the entries of all the batches handed to the transport so far, one
\* batch after the other in hand-off order, are the first entries put on the
\* queue, in put order.
C28_BatchesArePrefix ==
  /\ Len(HandedSeq(Len(sent))) <= Len(enqueued)
  /\ HandedSeq(Len(sent)) = SubSeq(enqueued, 1, Len(HandedSeq(Len(sent))))

\* Two batches were handed over by different threads, and an entry waits.
C28_Witness ==
  /\ Cardinality(Batches) >= 2
  /\ batch_queue # <<>>
  /\ \E t \in Timers : pc[t] = "sending"
  /\ \E i \in Batches : sent[i].status # "inflight"

\* The timers that are started and have neither fired nor been cancelled.
PendingTimers == {t \in Timers : pc[t] = "pending"}

\* C30: at most one timer is pending at any time; a timer thread leaves the
\* flush of its callback, whether the queue was empty, the send succeeded or
\* the send failed, only to go on to _start_batch_timer; and every callback
\* that has entered its flush is followed by a new pending timer, which the
\* logger references.
C30_TimerChain ==
  /\ [](Cardinality(PendingTimers) <= 1)
  /\ [][\A t \in Timers :
          (pc[t] \in {"check_empty", "drain", "sending"} /\
           pc'[t] \notin {"check_empty", "drain", "sending"})
          => pc'[t] = "restart"]_vars
  /\ \A t \in Timers :
       (pc[t] = "check_empty") ~> (pc[t] = "none" /\ batch_timer \in PendingTimers)

\* The send of a timer thread (one entry, no flush() call) has failed and the
\* thread is about to start the next timer.
C30_Witness ==
  \E t \in Timers :
    /\ pc[t] = "restart"
    /\ nextId = 2
    /\ \A p \in Producers : pc[p] = "idle" /\ call[p].op # "flush"
    /\ Len(sent) = 1
    /\ sent[1].status = "failed"
    /\ batch_lock = None


(* ------------------------------ the adapters --------------------------- *)

\* The largest levelno of a record considered (logging.CRITICAL is 50).
MaxLevelNo == 60
\* logging.CRITICAL, logging.ERROR, logging.WARNING, logging.INFO
CRITICAL == 50
ERROR == 40
WARNING == 30
INFO == 20

\* NeuralLogHandler._convert_level
NeuralLogHandler_convert_level(level) ==
  IF level >= CRITICAL THEN "fatal"
  ELSE IF level >= ERROR THEN "error"
  ELSE IF level >= WARNING THEN "warning"
  ELSE IF level >= INFO THEN "info"
  ELSE "debug"

\* A level name is the sequence of its characters. The letters that have an
\* upper case among the characters used, in both cases; "1" and "_" are
\* characters without case.
LowerLetters == <<"a", "b", "c", "d", "e", "f", "g", "i", "l", "n", "o", "r",
                  "s", "t", "u", "w">>
UpperLetters == <<"A", "B", "C", "D", "E", "F", "G", "I", "L", "N", "O", "R",
                  "S", "T", "U", "W">>

\* str.lower() on one character
LowerChar(c) ==
  IF \E i \in 1..Len(UpperLetters) : UpperLetters[i] = c
  THEN LowerLetters[CHOOSE i \in 1..Len(UpperLetters) : UpperLetters[i] = c]
  ELSE c

\* str.upper() on one character
UpperChar(c) ==
  IF \E i \in 1..Len(LowerLetters) : LowerLetters[i] = c
  THEN UpperLetters[CHOOSE i \in 1..Len(LowerLetters) : LowerLetters[i] = c]
  ELSE c

\* str.lower()
Lower(name) == [i \in 1..Len(name) |-> LowerChar(name[i])]

\* The level names the sink tells apart.
Critical == <<"c", "r", "i", "t", "i", "c", "a", "l">>
Fatal == <<"f", "a", "t", "a", "l">>
Error == <<"e", "r", "r", "o", "r">>
Warning == <<"w", "a", "r", "n", "i", "n", "g">>
Info == <<"i", "n", "f", "o">>

\* Loguru's other level names, and names an application may register or that
\* come close to the five above.
OtherNames ==
  {<<"d", "e", "b", "u", "g">>, <<"t", "r", "a", "c", "e">>,
   <<"s", "u", "c", "c", "e", "s", "s">>, <<"w", "a", "r", "n">>,
   <<"e", "r", "r">>, <<"i", "n", "f", "o", "s">>, <<"i", "n", "f", "o", "_", "1">>,
   <<"f", "a", "t", "a", "l", "1">>, <<>>}

\* A name in lower case, in upper case, capitalized and in alternating case.
Casings(name) ==
  {name,
   [i \in 1..Len(name) |-> UpperChar(name[i])],
   [i \in 1..Len(name) |-> IF i = 1 THEN UpperChar(name[i]) ELSE name[i]],
   [i \in 1..Len(name) |-> IF i % 2 = 0 THEN UpperChar(name[i]) ELSE name[i]]}

\* The level names of the records the sink is given.
LevelNames == UNION {Casings(name) : name \in {Critical, Fatal, Error, Warning, Info} \cup OtherNames}

\* Variant: the name is compared as it comes, without lower().
NeuralLogSink_convert_level_AsIs(level_name) ==
  IF level_name \in {Critical, Fatal} THEN "fatal"
  ELSE IF level_name = Error THEN "error"
  ELSE IF level_name = Warning THEN "warning"
  ELSE IF level_name = Info THEN "info"
  ELSE "debug"

\* NeuralLogSink._convert_level
NeuralLogSink_convert_level(level_name) ==
  LET lowered == Lower(level_name) IN
    IF lowered \in {Critical, Fatal} THEN "fatal"
    ELSE IF lowered = Error THEN "error"
    ELSE IF lowered = Warning THEN "warning"
    ELSE IF lowered = Info THEN "info"
    ELSE "debug"

\* The handler converts the level of the record it was given.
HandlerConvert ==
  /\ handler.level = None
  /\ handler' = [handler EXCEPT !.level = NeuralLogHandler_convert_level(handler.levelno)]
  /\ UNCHANGED <<config, loggerVars, httpVars, context_arg, nl_config,
                 nl_global_context, registryVars, sink>>

\* The sink converts the level name of the record it was given.
SinkConvert ==
  /\ sink.level = None
  /\ sink' = [sink EXCEPT !.level = NeuralLogSink_convert_level(sink.level_name)]
  /\ UNCHANGED <<config, loggerVars, httpVars, context_arg, nl_config,
                 nl_global_context, registryVars, handler>>

\* A handler and a sink on the logger, each given a record: any levelno up to
\* MaxLevelNo, any of the level names.
AdapterInit ==
  /\ config \in NewConfigs
  /\ LoggerInit
  /\ HttpIdle
  /\ ClassInit
  /\ nl_loggers = <<[log_name |-> MainName, logger |-> MainLogger]>>
  /\ handler \in [levelno : 0..MaxLevelNo, level : {None}]
  /\ sink \in [level_name : LevelNames, level : {None}]

AdapterNext == HandlerConvert \/ SinkConvert

AdapterSpec == AdapterInit /\ [][AdapterNext]_vars

\* Two names are the same but for the case of their letters.
SameButForCase(name, word) ==
  /\ Len(name) = Len(word)
  /\ \A i \in 1..Len(name) : name[i] = word[i] \/ name[i] = UpperChar(word[i])

\* C24: every level number the handler converts gives exactly the level of
\* the thresholds (at or above CRITICAL fatal, else at or above ERROR error,
\* else at or above WARNING warning, else at or above INFO info, else debug),
\* and every level name the sink converts gives fatal for critical and fatal,
\* error, warning and info for themselves, whatever the case of the letters,
\* and debug for any other name.
C24_LevelMapping ==
  /\ handler.level # None =>
       /\ handler.level \in Levels
       /\ handler.level = "fatal" <=> handler.levelno >= 50
       /\ handler.level = "error" <=> (handler.levelno >= 40 /\ handler.levelno < 50)
       /\ handler.level = "warning" <=> (handler.levelno >= 30 /\ handler.levelno < 40)
       /\ handler.level = "info" <=> (handler.levelno >= 20 /\ handler.levelno < 30)
       /\ handler.level = "debug" <=> handler.levelno < 20
  /\ sink.level # None =>
       /\ sink.level \in Levels
       /\ sink.level = "fatal" <=> (\/ SameButForCase(sink.level_name, Critical)
                                    \/ SameButForCase(sink.level_name, Fatal))
       /\ sink.level = "error" <=> SameButForCase(sink.level_name, Error)
       /\ sink.level = "warning" <=> SameButForCase(sink.level_name, Warning)
       /\ sink.level = "info" <=> SameButForCase(sink.level_name, Info)
       /\ sink.level = "debug" <=>
            \A word \in {Critical, Fatal, Error, Warning, Info} :
               ~SameButForCase(sink.level_name, word)

\* A record at logging.CRITICAL converted to fatal, and the name "WaRnInG"
\* converted to warning.
C24_Witness ==
  /\ handler.levelno = 50 /\ handler.level = "fatal"
  /\ sink.level_name = <<"w", "A", "r", "N", "i", "N", "g">>
  /\ sink.level = "warning"


(* ------------------------------ the registry --------------------------- *)

\* The contexts given to set_global_context.
RegistryContexts == Contexts \cup {("a" :> 2)}

\* The class before any call: the registry is empty (the logger followed in
\* detail was constructed by the application itself).
RegistryInit ==
  /\ config \in NewConfigs
  /\ LoggerInit
  /\ HttpIdle
  /\ ClassInit
  /\ AdaptersIdle
  /\ nl_loggers = <<>>

\* Two threads that call get_logger, set_global_context, flush_all and
\* set_context on the logger they got, in any interleaving.
RegistryNext ==
  \/ \E t \in Producers, log_name \in LogNames : GetLogger(t, log_name)
  \/ \E t \in Producers, c \in RegistryContexts : SetGlobalContext(t, c)
  \/ \E t \in Producers : FlushAll(t)
  \/ \E t \in Producers, c \in Contexts \ {EmptyDict} : LoggerSetContext(t, c)
  \/ \E t \in Producers : RegistryAcquire(t)
  \/ \E t \in Producers : GetLoggerLookup(t)
  \/ \E t \in Producers : GetLoggerCreate(t)
  \/ \E t \in Producers : ApplyGlobalContext(t)
  \/ \E t \in Producers : FlushAllNext(t)
  \/ \E t \in Producers : RegistryRelease(t)

RegistrySpec == RegistryInit /\ [][RegistryNext]_vars

\* C21: no two loggers are ever constructed for the same name, the logger
\* registered under a name is never replaced, every get_logger call with a
\* non-empty name returns the logger registered under that name, and a call
\* with the empty name raises ValueError and leaves the registry and the
\* constructed loggers as they were.
C21_OneLoggerPerName ==
  /\ [](\A i, j \in 1..Len(ai_loggers) :
          ai_loggers[i].log_name = ai_loggers[j].log_name => i = j)
  /\ [][\A log_name \in LogNames :
          Registered(log_name) =>
            Registered(log_name)' /\ Lookup(log_name)' = Lookup(log_name)]_vars
  /\ [][\A t \in Producers :
          (call[t].op = "get_logger" /\ pc[t] = "release" /\ pc'[t] = "idle") =>
            /\ result'[t] = "returned"
            /\ frame[t].log_name # ""
            /\ Registered(frame[t].log_name)
            /\ frame'[t].logger = <<Lookup(frame[t].log_name)>>]_vars
  /\ [][\A t \in Producers :
          GetLogger(t, "") =>
            /\ result'[t] = "ValueError"
            /\ pc'[t] = "idle"
            /\ UNCHANGED <<nl_loggers, ai_loggers, nl_lock>>]_vars

\* One thread has made the logger "a" and is about to return it while the
\* other, which asked for "a" too, waits for the registry lock.
C21_Witness ==
  /\ pc["p1"] = "release" /\ call["p1"].op = "get_logger"
  /\ frame["p1"].log_name = "a" /\ frame["p1"].logger = <<1>>
  /\ pc["p2"] = "registry" /\ call["p2"].op = "get_logger"
  /\ frame["p2"].log_name = "a"
  /\ Len(ai_loggers) = 1

\* No get_logger or set_global_context call is between its first step and
\* its return.
NoRegistryCall ==
  \A t \in Producers :
    call[t].op \in {"get_logger", "set_global_context"} => pc[t] = "idle"

\* C22: whenever no get_logger or set_global_context call is in progress,
\* every registered logger no caller has called set_context on holds the
\* global context; and a logger get_logger constructs is registered with the
\* global context as it is then.
C22_GlobalContext ==
  /\ [](NoRegistryCall =>
          \A i \in 1..Len(nl_loggers) :
            LET logger == nl_loggers[i].logger IN
              (logger # MainLogger /\ ~ai_loggers[logger].direct) =>
                 ai_loggers[logger].context = nl_global_context)
  /\ [][Len(ai_loggers') > Len(ai_loggers) =>
          /\ ai_loggers'[Len(ai_loggers')].context = nl_global_context
          /\ ~ai_loggers'[Len(ai_loggers')].direct
          /\ nl_loggers'[Len(nl_loggers')].logger = Len(ai_loggers')]_vars

\* With no call in progress, two loggers are registered; the first was
\* made under an empty global context and holds the later one, the second
\* had set_context called on it and holds another context.
C22_Witness ==
  /\ NoRegistryCall
  /\ Len(nl_loggers) = 2
  /\ nl_global_context = ("a" :> 2)
  /\ ai_loggers[1].context = ("a" :> 2) /\ ~ai_loggers[1].direct
  /\ ai_loggers[2].context = ("a" :> 1) /\ ai_loggers[2].direct
  /\ \E t \in Producers : call[t].op = "set_global_context"

\* C23: when flush_all returns, the loggers it has called flush() on are the
\* loggers of the registry, each once and no other; and while it runs it
\* has called flush() on no logger twice and on none outside the registry.
C23_FlushAllOncePerLogger ==
  /\ [](\A t \in Producers :
          call[t].op = "flush_all" /\ pc[t] # "idle" =>
            /\ \A i, j \in 1..Len(frame[t].done) :
                 frame[t].done[i] = frame[t].done[j] => i = j
            /\ Range(frame[t].done) \subseteq Range(LoggersValues))
  /\ [][\A t \in Producers :
          (call[t].op = "flush_all" /\ pc[t] # "idle" /\ pc'[t] = "idle") =>
            /\ Range(frame[t].done) = Range(LoggersValues)
            /\ Len(frame[t].done) = Len(nl_loggers)
            /\ result'[t] = "returned"]_vars

\* flush_all has returned after calling flush() on the two loggers of the
\* registry.
C23_Witness ==
  \E t \in Producers :
    /\ call[t].op = "flush_all" /\ result[t] = "returned"
    /\ Len(nl_loggers) = 2
    /\ frame[t].done = <<1, 2>>


(* --------------------------- the two locks ----------------------------- *)

\* The steps a thread takes inside a call or a callback once it has started,
\* but for the two lock acquisitions.
Continue(t) ==
  \/ CheckSize(t)
  \/ CheckEmpty(t)
  \/ Drain(t)
  \/ \E o \in SendOutcomes : SendBatchDone(t, o)
  \/ TimerFire(t)
  \/ StartBatchTimer(t)
  \/ t \in Producers /\ GetLoggerLookup(t)
  \/ t \in Producers /\ GetLoggerCreate(t)
  \/ t \in Producers /\ ApplyGlobalContext(t)
  \/ t \in Producers /\ FlushAllNext(t)
  \/ t \in Producers /\ RegistryRelease(t)

\* A batching logger of the registry with its timer.
LockInit == Init /\ Batching /\ TimerConfigured /\ config.batch_size = MaxBatchSize

\* One producer that logs, flushes and asks get_logger for the logger, and
\* one that calls get_logger for another name, set_global_context and
\* flush_all, with the timer threads of the logger.
LockNext ==
  \/ nextId < MaxApiEvents /\ Log("p1", "info", "m", EmptyDict)
  \/ Flush("p1")
  \/ GetLogger("p1", MainName)
  \/ GetLogger("p2", "a")
  \/ SetGlobalContext("p2", ("a" :> 1))
  \/ FlushAll("p2")
  \/ \E t \in Producers : RegistryAcquire(t)
  \/ \E t \in Producers : GetLoggerLookup(t)
  \/ GetLoggerCreate("p2")
  \/ ApplyGlobalContext("p2")
  \/ FlushAllNext("p2")
  \/ \E t \in Producers : RegistryRelease(t)
  \/ CheckSize("p1")
  \/ \E t \in Threads : Acquire(t)
  \/ \E t \in Threads : CheckEmpty(t)
  \/ \E t \in Threads : Drain(t)
  \/ \E t \in Threads, o \in SendOutcomes : SendBatchDone(t, o)
  \/ \E t \in Timers : TimerFire(t)
  \/ \E t \in Timers : StartBatchTimer(t)

\* Every thread inside a call goes on (a send terminates, with either
\* outcome), and a thread waiting for a lock that is free again and again
\* gets it.
LockSpec ==
  /\ LockInit
  /\ [][LockNext]_vars
  /\ \A t \in Threads : WF_vars(Continue(t)) /\ SF_vars(Acquire(t))
  /\ \A t \in Producers : SF_vars(RegistryAcquire(t))

\* Some thread is inside a call or a callback.
InCall == \E t \in Threads : pc[t] \notin {"idle", "none", "pending"}

RegistryConfigs ==
  {cfg \in Configs : cfg.batch_interval_ms = 0 /\ (cfg.async_enabled \/ cfg.batch_size = 1)}

\* Two threads that register configurations and call get_logger, in any
\* interleaving, from an empty registry.
ConfigNext ==
  \/ \E t \in Producers, cfg \in RegistryConfigs : Configure(t, cfg)
  \/ \E t \in Producers, log_name \in LogNames : GetLogger(t, log_name)
  \/ \E t \in Producers : RegistryAcquire(t)
  \/ \E t \in Producers : GetLoggerLookup(t)
  \/ \E t \in Producers : GetLoggerCreate(t)
  \/ \E t \in Producers : RegistryRelease(t)

ConfigSpec == RegistryInit /\ [][ConfigNext]_vars

\* C31: no step changes the configuration of a logger that exists, a logger
\* get_logger constructs has the configuration registered then, and a
\* get_logger call returns the logger registered under the name as it was.
C31_LoggerKeepsConfig ==
  /\ [][/\ config' = config
        /\ \A i \in 1..Len(ai_loggers) :
             /\ i <= Len(ai_loggers')
             /\ ai_loggers'[i].config = ai_loggers[i].config
             /\ ai_loggers'[i].log_name = ai_loggers[i].log_name]_vars
  /\ [][Len(ai_loggers') > Len(ai_loggers) =>
          ai_loggers'[Len(ai_loggers')].config = nl_config]_vars
  /\ [][\A t \in Producers :
          (call[t].op = "get_logger" /\ pc[t] = "release" /\ pc'[t] = "idle") =>
            /\ frame'[t].logger = <<Lookup(frame[t].log_name)>>
            /\ ai_loggers'[frame'[t].logger[1]] = ai_loggers[frame'[t].logger[1]]]_vars

\* The logger "a" was made under one configuration and the logger "b" under
\* a later one, which is still registered; a producer that got "a" before is
\* idle while the other is about to be returned "a" again.
C31_Witness ==
  /\ Len(ai_loggers) = 2
  /\ ai_loggers[1].log_name = "a"
  /\ ai_loggers[1].config # nl_config
  /\ ai_loggers[2].config = nl_config
  /\ pc["p1"] = "idle" /\ call["p1"].op = "get_logger" /\ frame["p1"].logger = <<2>>
  /\ pc["p2"] = "release" /\ frame["p2"].log_name = "a" /\ frame["p2"].logger = <<1>>


(* ------------------------ loggers without batching --------------------- *)

\* C32: in a synchronous logger and in an asynchronous one with batch_size 1
\* the queue is empty in every state, nothing was ever put on it, no thread
\* is draining it or sending a batch, and every send made is the POST of a
\* single entry.
C32_NoQueueWithoutBatching ==
  ~(config.async_enabled /\ config.batch_size > 1) =>
     /\ batch_queue = <<>>
     /\ enqueued = <<>>
     /\ \A t \in Threads : log_entries[t] = <<>> /\ pc[t] \notin {"qsize", "drain", "sending"}
     /\ \A i \in 1..Len(sent) : sent[i].kind = "single" /\ Len(sent[i].entries) = 1

\* An asynchronous logger with batch_size 1 and a timer: every event was
\* logged and sent, a producer's flush has returned and a timer callback has
\* been through _send_batch.
C32_Witness ==
  /\ config.async_enabled /\ config.batch_size = 1 /\ config.batch_interval_ms > 0
  /\ Len(sent) = MaxEvents
  /\ \E t \in Timers : pc[t] = "restart"
  /\ \E t \in Producers : call[t].op = "flush" /\ result[t] = "returned"
  /\ ~disposed

====
